---- MODULE Spec2Model ----
(***************************************************************************)
(* Control core of the JBclone soldering station firmware: the zero-cross  *)
(* interrupt, the cooperative main loop with Heater::update(), the PID     *)
(* engine, the thermocouple calibration table and the serial `en` command. *)
(*                                                                         *)
(* Numbers.  C++ floats are modelled as integers plus three IEEE special   *)
(* values (NaN, PInf, NInf).  Voltages are in microvolt, temperatures in   *)
(* degree Celsius, times in microseconds (millis() is micros() \div 1000). *)
(* The normalised quantities of the PID (gains, error, integral, output,   *)
(* derivative filter constant) are fixed point with FScale units per 1.0;  *)
(* divisions round toward minus infinity where the float rounds to nearest.*)
(***************************************************************************)
EXTENDS Integers, Sequences, FiniteSets, TLC

(* ------------------------------------------------------------------ *)
(* Program constants (Hardware.h, Heater.h)                           *)
(* ------------------------------------------------------------------ *)
ADC_BITS == 12
ADC_RES == 4096
ADC_VREF_mV == 3300
_tc_amp_recovery_time == 1700
_hartbeat_pulse_width == 5000
_zero_cross_period == 10
_tc_cal_table_size == 10
_hmi_update_interval == 200
_board1_tc_gain == 200
_board2_tc_gain == 400
eeprom_size == 2048

(* ------------------------------------------------------------------ *)
(* Bounds of the model                                                 *)
(* ------------------------------------------------------------------ *)
\* number of channels that are instantiated (the firmware builds four)
NumHeaters == 1
\* the clock advances in steps of TimeStep microseconds up to MaxTime
TimeStep == 2000
MaxTime == 4000
\* the counters of sample acquisitions saturate at MaxCount
MaxCount == 2
\* microseconds per step of the clock where it is followed by the millisecond
MillisStep == 1000
\* microseconds per step of the clock where it is followed by the HMI update
\* interval, and the time that clock stops at
PanelStep == 201000
MaxPanelTime == 603000
\* microseconds per step of the clock where it is followed by the heartbeat pulse,
\* the time up to which that clock has to run, and the number of zero crossings
\* before the mains is cut
BeatStep == 2000
MaxBeatTime == 8000
MaxBeatTicks == 3

\* microseconds per step of the clock where one step is the time between two
\* samples, and the time up to which that clock runs
CycleStep == 100000
MaxCycleTime == 200000

Heaters == 0 .. (NumHeaters - 1)

\* fixed-point units per 1.0: a tenth of one firing step k / _zero_cross_period
FScale == 10 * _zero_cross_period

(* ------------------------------------------------------------------ *)
(* IEEE-754 special values and float arithmetic                        *)
(* ------------------------------------------------------------------ *)
PInf == 2 ^ 30
NInf == 0 - PInf
NaN == NInf - 1

IsNum(a) == a # NaN /\ a # PInf /\ a # NInf

Norm(x) == IF x >= PInf THEN PInf ELSE IF x <= NInf THEN NInf ELSE x

Sign(a) == IF a > 0 THEN 1 ELSE IF a < 0 THEN 0 - 1 ELSE 0

Abs(a) == IF a < 0 THEN 0 - a ELSE a

IDiv(a, b) == IF b > 0 THEN a \div b ELSE (0 - a) \div (0 - b)

FNeg(a) == IF a = NaN THEN NaN ELSE IF a = PInf THEN NInf ELSE IF a = NInf THEN PInf ELSE 0 - a

FAdd(a, b) ==
    IF a = NaN \/ b = NaN THEN NaN
    ELSE IF a = PInf THEN (IF b = NInf THEN NaN ELSE PInf)
    ELSE IF a = NInf THEN (IF b = PInf THEN NaN ELSE NInf)
    ELSE IF ~IsNum(b) THEN b
    ELSE Norm(a + b)

FSub(a, b) == FAdd(a, FNeg(b))

\* a * b, both plain integers of their unit (no rescaling)
FMul(a, b) ==
    IF a = NaN \/ b = NaN THEN NaN
    ELSE IF ~IsNum(a) \/ ~IsNum(b)
         THEN (IF Sign(a) * Sign(b) = 0 THEN NaN
               ELSE IF Sign(a) * Sign(b) > 0 THEN PInf ELSE NInf)
    ELSE IF b # 0 /\ Abs(a) > PInf \div Abs(b)
         THEN (IF Sign(a) * Sign(b) > 0 THEN PInf ELSE NInf)
    ELSE Norm(a * b)

\* a / b: x/0 is an infinity, 0/0 and inf/inf are NaN
FDiv(a, b) ==
    IF a = NaN \/ b = NaN THEN NaN
    ELSE IF ~IsNum(a) THEN (IF ~IsNum(b) THEN NaN
                            ELSE IF Sign(a) * Sign(b) < 0 THEN NInf ELSE PInf)
    ELSE IF ~IsNum(b) THEN 0
    ELSE IF b = 0 THEN (IF a = 0 THEN NaN ELSE IF a > 0 THEN PInf ELSE NInf)
    ELSE IDiv(a, b)

\* comparisons: every comparison with NaN is false
FLt(a, b) == a # NaN /\ b # NaN /\ a < b
FGt(a, b) == FLt(b, a)
FLe(a, b) == a # NaN /\ b # NaN /\ a <= b
FGe(a, b) == FLe(b, a)

\* Arduino macro constrain(amt, low, high): a NaN amt passes through
constrain(amt, low, high) ==
    IF FLt(amt, low) THEN low ELSE IF FGt(amt, high) THEN high ELSE amt

\* product of two fixed-point numbers, in fixed point
FixMul(a, b) == FDiv(FMul(a, b), FScale)

\* quotient of two numbers of the same unit, in fixed point
FixDiv(a, b) == FDiv(FMul(a, FScale), b)

\* x / dt and x * dt for a time dt given in microseconds (dt >= 1000)
PerSecond(x, dt_us) == FDiv(FMul(x, 1000), dt_us \div 1000)
TimesSeconds(x, dt_us) == FDiv(FMul(x, dt_us), 1000000)

(* ------------------------------------------------------------------ *)
(* Calibration table (cal_table.cpp)                                   *)
(* A table is a sequence of _tc_cal_table_size pairs <<uV, degC>>.     *)
(* ------------------------------------------------------------------ *)
\* y1 + slope * (v - x1) with slope = (y2 - y1) / (x2 - x1)
interpolate(x1, y1, x2, y2, v) ==
    LET dy == FSub(y2, y1)
        dx == FSub(x2, x1)
        dv == FSub(v, x1)
        slope == FDiv(dy, dx)
    IN  IF IsNum(dy) /\ IsNum(dx) /\ dx # 0 /\ IsNum(dv)
        THEN FAdd(y1, FDiv(FMul(dy, dv), dx))
        ELSE FAdd(y1, FMul(slope, dv))

SetMin(S) == CHOOSE x \in S : \A y \in S : x <= y

tcv_to_temp(table, v) ==
    LET n == _tc_cal_table_size
        below == {i \in 2 .. n : FLt(v, table[i][1])}
    IN  IF FLe(v, table[1][1])
        THEN interpolate(table[1][1], table[1][2], table[2][1], table[2][2], v)
        ELSE IF FGe(v, table[n][1])
        THEN interpolate(table[n - 1][1], table[n - 1][2], table[n][1], table[n][2], v)
        ELSE IF below = {} THEN NaN
        ELSE LET i == SetMin(below)
             IN  interpolate(table[i - 1][1], table[i - 1][2], table[i][1], table[i][2], v)

temp_to_tcv(table, temp) ==
    LET n == _tc_cal_table_size
        below == {i \in 2 .. n : FLt(temp, table[i][2])}
    IN  IF FLe(temp, table[1][2])
        THEN interpolate(table[1][2], table[1][1], table[2][2], table[2][1], temp)
        ELSE IF FGe(temp, table[n][2])
        THEN interpolate(table[n - 1][2], table[n - 1][1], table[n][2], table[n][1], temp)
        ELSE IF below = {} THEN NaN
        ELSE LET i == SetMin(below)
             IN  interpolate(table[i - 1][2], table[i - 1][1], table[i][2], table[i][1], temp)

(* ------------------------------------------------------------------ *)
(* PID engine (pid.cpp).  H is the record of one Heater object.        *)
(* ------------------------------------------------------------------ *)
_pid_output_min == 0
_pid_output_max == FScale

\* variant: a reset that clears the derivative memory instead of seeding it
pid_reset_unseeded(H) ==
    [H EXCEPT !._pid_integral = 0,
              !._pid_derivative_prev_e_t = 0,
              !._pid_update_pending = FALSE,
              !._pid_output = 0,
              !._pid_TCvoltsge_pv_old_timestamp = 0,
              !._pid_TCvoltage_pv_timestamp = 0]

pid_reset(H) ==
    [H EXCEPT !._pid_integral = 0,
              !._pid_derivative_prev_e_t = FMul(H._pid_TCvoltage_pv, FScale),
              !._pid_update_pending = FALSE,
              !._pid_output = 0,
              !._pid_TCvoltsge_pv_old_timestamp = 0,
              !._pid_TCvoltage_pv_timestamp = 0]

\* the oversampling guard of pid_compute: dt < 0.001 s
pid_dt(H) == H._pid_TCvoltage_pv_timestamp - H._pid_TCvoltsge_pv_old_timestamp

pid_oversampled(H) == pid_dt(H) < 1000

\* variant: the error against the working setpoint, asleep or not
pid_error_awake(H) ==
    LET IOspan == H._tc_max_voltage_setpoint
    IN  FSub(FixDiv(H._pid_TCvoltage_sp, IOspan), FixDiv(H._pid_TCvoltage_pv, IOspan))

pid_error(H) ==
    LET sp == IF H._sleep_state THEN H._sleep_TCvoltage_set ELSE H._pid_TCvoltage_sp
        IOspan == H._tc_max_voltage_setpoint
    IN  FSub(FixDiv(sp, IOspan), FixDiv(H._pid_TCvoltage_pv, IOspan))

\* variant: an oversampling skip that also switches the output off
pid_skip_zeroed(H) == [H EXCEPT !._pid_update_pending = FALSE, !._pid_output = 0]

\* pid_compute, the oversampling skip: clear the pending flag and return
pid_skip(H) == [H EXCEPT !._pid_update_pending = FALSE]

pid_compute(H) ==
    IF pid_oversampled(H)
    THEN pid_skip(H)
    ELSE
    LET dt == pid_dt(H)
        error == pid_error(H)
        p_term == FixMul(H._pid_kp, error)
        prev == H._pid_derivative_prev_e_t
        tau_us == FMul(H._pid_derivative_filter_tau, 1000000 \div FScale)
        alpha == FDiv(FMul(dt, FScale), FAdd(tau_us, dt))
        filtered_error == FAdd(FixMul(alpha, error), FixMul(FSub(FScale, alpha), prev))
        with_d == FGt(H._pid_kd, 0)
        with_tau == FGt(H._pid_derivative_filter_tau, 0)
        derivative == IF with_tau THEN PerSecond(FSub(filtered_error, prev), dt)
                      ELSE PerSecond(FSub(error, prev), dt)
        new_prev == IF ~with_d THEN prev ELSE IF with_tau THEN filtered_error ELSE error
        d_term == IF with_d THEN FixMul(H._pid_kd, derivative) ELSE 0
        with_i == FGt(H._pid_ki, 0)
        control_signal_unconstrained ==
            FAdd(FAdd(p_term, FixMul(H._pid_ki, H._pid_integral)), d_term)
        aw_correction == FSub(H._pid_output, control_signal_unconstrained)
        integrated == FAdd(H._pid_integral, TimesSeconds(FAdd(error, aw_correction), dt))
        i_max == FixDiv(_pid_output_max, H._pid_ki)
        i_min == FixDiv(_pid_output_min, H._pid_ki)
        new_integral == IF with_i THEN constrain(integrated, i_min, i_max)
                        ELSE H._pid_integral
        i_term == IF with_i THEN FixMul(H._pid_ki, new_integral) ELSE 0
        control_signal == FAdd(FAdd(p_term, i_term), d_term)
    IN  [H EXCEPT !._pid_derivative_prev_e_t = new_prev,
                  !._pid_integral = new_integral,
                  !._pid_output = constrain(control_signal, _pid_output_min, _pid_output_max)]

\* largest count analogRead() returns with analogReadResolution(ADC_BITS)
AdcFullScale == 2 ^ ADC_BITS - 1

\* thermocouple voltage in uV of an ADC count: adc / ADC_RES * ADC_VREF / gain * 1e6
adc_to_uv(adc, gain) == (adc * ADC_VREF_mV * 125) \div ((ADC_RES \div 8) * gain)

\* variant: a runaway test that looks at the ADC count only
pid_runaway_adc_only(H, adc) == adc >= ADC_RES

\* the runaway test of pid_sample
pid_runaway(H, adc) ==
    FGt(H._temp_pv, H._temp_runaway_threshold) \/ adc >= ADC_RES

\* pid_sample up to the runaway test: the new process value and timestamps
pid_acquire(H, adc, now) ==
    LET uv == adc_to_uv(adc, H._tc_gain)
    IN  [H EXCEPT !._pid_TCvoltage_pv = uv,
                  !._temp_pv = tcv_to_temp(H._tc_cal_table, uv),
                  !._pid_TCvoltsge_pv_old_timestamp = H._pid_TCvoltage_pv_timestamp,
                  !._pid_TCvoltage_pv_timestamp = now,
                  !._pid_update_pending = TRUE]

pid_sample(H, adc, now) ==
    LET S == pid_acquire(H, adc, now)
    IN  IF pid_runaway(S, adc)
        THEN pid_reset([S EXCEPT !._enable = FALSE])
        ELSE S

\* variant: scheduling a sample also resets the PID
pid_schedule_sample_reset(H, now) ==
    [pid_reset(H) EXCEPT !._sample_scheduled = TRUE,
                         !._sample_Schedule_timestamp = now]

pid_schedule_sample(H, now) ==
    [H EXCEPT !._sample_scheduled = TRUE,
              !._sample_Schedule_timestamp = now]

\* variant: update_output without the sample-window gate
update_output_ungated(H, op_level) ==
    H._enable /\ FLt(op_level, H._pid_output)

\* variant: update_output that compares op_level <= _pid_output
update_output_inclusive(H, op_level) ==
    H._enable /\ ~H._sample_scheduled /\ FLe(op_level, H._pid_output)

\* the level update_output writes to the heater pin (TRUE = HIGH)
update_output(H, op_level) ==
    H._enable /\ ~H._sample_scheduled /\ FLt(op_level, H._pid_output)

(* ------------------------------------------------------------------ *)
(* Persistence (Heater.h: load_memory).  The EEPROM is modelled per    *)
(* float slot: slot s holds the float stored at byte address 4 * s.    *)
(* ------------------------------------------------------------------ *)
\* floats per channel: the 10 mapped scalars and the 10 table pairs
eeprom_slots == 10 + 2 * _tc_cal_table_size

\* Heater::eeprom_footprint in bytes
\* variant: a footprint that counts the calibration table only
eeprom_footprint_table == 4 * 2 * _tc_cal_table_size

eeprom_footprint == 4 * eeprom_slots

\* _eeprom_mapped_vars, in storage order
_eeprom_mapped_vars ==
    << "_pid_TCvoltage_sp", "_temp_sp_min", "_temp_sp_max", "_pid_kp", "_pid_ki",
       "_pid_kd", "_pid_derivative_filter_tau", "_sleep_delay", "_sleep_TCvoltage_set",
       "_temp_runaway_threshold" >>

\* EEprom::readFloat into a variable holding `old`: a failed bus read leaves the
\* variable alone, a stored NaN is copied into it before the read reports failure
readFloat_value(mem, slot, bus_fails, old) ==
    IF 4 * slot + 4 > eeprom_size \/ slot \in bus_fails THEN old ELSE mem[slot]

readFloat_ok(mem, slot, bus_fails) ==
    4 * slot + 4 <= eeprom_size /\ slot \notin bus_fails /\ mem[slot] # NaN

load_memory_ok(H, mem, bus_fails) ==
    \A k \in 0 .. (eeprom_slots - 1) :
        readFloat_ok(mem, (H._start_address \div 4) + k, bus_fails)

load_memory(H, mem, bus_fails) ==
    LET base == H._start_address \div 4
        rd(k, old) == readFloat_value(mem, base + k, bus_fails, old)
        L == [H EXCEPT
                !._pid_TCvoltage_sp = rd(0, @),
                !._temp_sp_min = rd(1, @),
                !._temp_sp_max = rd(2, @),
                !._pid_kp = rd(3, @),
                !._pid_ki = rd(4, @),
                !._pid_kd = rd(5, @),
                !._pid_derivative_filter_tau = rd(6, @),
                !._sleep_delay = rd(7, @),
                !._sleep_TCvoltage_set = rd(8, @),
                !._temp_runaway_threshold = rd(9, @),
                !._tc_cal_table = [i \in 1 .. _tc_cal_table_size |->
                                     << rd(10 + 2 * (i - 1), @[i][1]),
                                        rd(11 + 2 * (i - 1), @[i][2]) >>]]
    IN  IF load_memory_ok(H, mem, bus_fails)
        THEN [L EXCEPT !._temp_sp = tcv_to_temp(L._tc_cal_table, L._pid_TCvoltage_sp)]
        ELSE L

\* variant: the record with kp and ki stored in each other's place
persisted_swapped(H) ==
    [k \in 1 .. eeprom_slots |->
        IF k = 4 THEN H._pid_ki
        ELSE IF k = 5 THEN H._pid_kp
        ELSE IF k <= 10 THEN H[_eeprom_mapped_vars[k]]
        ELSE H._tc_cal_table[((k - 11) \div 2) + 1][((k - 11) % 2) + 1]]

\* the 30 persisted floats of H in storage order
persisted(H) ==
    [k \in 1 .. eeprom_slots |->
        IF k <= 10 THEN H[_eeprom_mapped_vars[k]]
        ELSE H._tc_cal_table[((k - 11) \div 2) + 1][((k - 11) % 2) + 1]]

\* EEprom::writeFloat of value to a slot whose bus behaves as `fault`: "ok"; "nack"
\* (the first byte is refused, the slot keeps its content); "late" (every byte is
\* stored, the last acknowledge poll times out).  A write that stops between two
\* bytes of a float is not modelled.
writeFloat_ok(slot, fault) == 4 * slot + 4 <= eeprom_size /\ fault = "ok"

writeFloat_value(old, slot, fault, value) ==
    IF 4 * slot + 4 > eeprom_size \/ fault = "nack" THEN old ELSE value

\* variant: a save that gives up at the first float that fails
save_stops(H, mem, faults) ==
    LET base == H._start_address \div 4
        own(s) == s >= base /\ s < base + eeprom_slots
        good_op == \A k \in 1 .. eeprom_slots : writeFloat_ok(base + k - 1, faults[k])
        reached(k) == \A j \in 1 .. (k - 1) : writeFloat_ok(base + j - 1, faults[j])
    IN  [mem |-> [s \in DOMAIN mem |->
                    IF own(s) /\ reached(s - base + 1)
                    THEN writeFloat_value(mem[s], s, faults[s - base + 1],
                                          persisted(H)[s - base + 1])
                    ELSE mem[s]],
         ok |-> good_op,
         response |-> IF good_op THEN "OK" ELSE "FAIL TO SAVE"]

\* Heater::save: the chip content, the return value and the response;
\* faults[k] is the bus behaviour at the k-th float of the record
save(H, mem, faults) ==
    LET base == H._start_address \div 4
        own(s) == s >= base /\ s < base + eeprom_slots
        good_op == \A k \in 1 .. eeprom_slots : writeFloat_ok(base + k - 1, faults[k])
    IN  [mem |-> [s \in DOMAIN mem |->
                    IF own(s)
                    THEN writeFloat_value(mem[s], s, faults[s - base + 1],
                                          persisted(H)[s - base + 1])
                    ELSE mem[s]],
         ok |-> good_op,
         response |-> IF good_op THEN "OK" ELSE "FAIL TO SAVE"]

(* ------------------------------------------------------------------ *)
(* Heater object (Heater.h, Heater.cpp)                                *)
(* ------------------------------------------------------------------ *)
\* amplifier gain of channel h (Hardware.h: _board1.._board4)
tc_gain_of(h) == IF h = 0 THEN _board1_tc_gain ELSE _board2_tc_gain

\* the object after its constructor: statics are zero-initialised first
Heater(h) ==
    [ _tc_gain |-> tc_gain_of(h),
      _tc_max_voltage_setpoint |-> (ADC_VREF_mV * 1000) \div tc_gain_of(h),
      _start_address |-> eeprom_footprint * h,
      _enable |-> FALSE,
      _temp_sp_min |-> 0, _temp_sp_max |-> 0, _temp_runaway_threshold |-> 0,
      _temp_sp |-> 0, _temp_pv |-> 0,
      _tc_cal_table |-> [i \in 1 .. _tc_cal_table_size |-> << 0, 0 >>],
      _pid_kp |-> 0, _pid_ki |-> 0, _pid_integral |-> 0,
      _pid_kd |-> 0, _pid_derivative_prev_e_t |-> 0, _pid_derivative_filter_tau |-> 0,
      _pid_TCvoltage_sp |-> 0, _pid_output |-> 0,
      _sample_scheduled |-> FALSE, _sample_Schedule_timestamp |-> 0,
      _pid_TCvoltsge_pv_old_timestamp |-> 0, _pid_TCvoltage_pv_timestamp |-> 0,
      _pid_TCvoltage_pv |-> 0, _pid_update_pending |-> FALSE,
      _sleep_delay_start_time |-> 0, _sleep_delay_running |-> FALSE,
      _sleep_delay |-> 0, _sleep_state |-> FALSE, _sleep_TCvoltage_set |-> 0,
      _hmi_last_update_timestamp |-> 0 ]

\* Heater::init: load the persisted record, then reset the PID
init(H, mem, bus_fails) == pid_reset(load_memory(H, mem, bus_fails))

\* variant: a scheduled sample is taken without waiting for the amplifier
sample_due_at_once(H, now) == H._sample_scheduled

\* update(), first statement: is a scheduled sample due?
sample_due(H, now) ==
    H._sample_scheduled /\ now - H._sample_Schedule_timestamp > _tc_amp_recovery_time

\* variant: update() that never ends the sample window
update_store_never(H) == H

\* update(): the store that ends a sample window ("skip first sample")
update_store(H) ==
    IF H._pid_TCvoltsge_pv_old_timestamp # 0
    THEN [H EXCEPT !._sample_scheduled = FALSE]
    ELSE H

\* variant: update() that leaves _pid_update_pending set after the compute
update_pid_unconsumed(H) ==
    IF H._pid_update_pending /\ H._enable THEN pid_compute(H) ELSE H

\* variant: update() that computes for a disabled channel too
update_pid_disabled(H) ==
    IF H._pid_update_pending
    THEN [pid_compute(H) EXCEPT !._pid_update_pending = FALSE]
    ELSE H

\* update(): PID output compute
update_pid(H) ==
    IF H._pid_update_pending /\ H._enable
    THEN [pid_compute(H) EXCEPT !._pid_update_pending = FALSE]
    ELSE H

\* update(): HMI cadence
hmi_due(H, now_ms) == now_ms - H._hmi_last_update_timestamp > _hmi_update_interval

update_hmi(H, now_ms) ==
    IF hmi_due(H, now_ms) THEN [H EXCEPT !._hmi_last_update_timestamp = now_ms] ELSE H

\* Display::display_command on a port that has been written tx: the command and
\* three terminator bytes, or nothing while updates are paused
display_terminator == "0xFF"

display_command_unpaused(paused, tx, command) ==
    tx \o << command, display_terminator, display_terminator, display_terminator >>

display_command(paused, tx, command) ==
    IF paused THEN tx
    ELSE tx \o << command, display_terminator, display_terminator, display_terminator >>

\* Display::text, Display::value, Display::color: the command up to the value
\* (the text or number a Heater getter returns is not part of the model)
display_text(target_field) == target_field \o ".txt="

display_value(target_field) == target_field \o ".val="

display_color(target_field) == target_field \o ".pco="

\* HMI_heater1_update .. HMI_heater4_update: the commands of channel h, in order
HMI_heater_update(h) ==
    CASE h = 0 -> << display_text("h1meas"), display_text("h1set"), display_value("h1op"),
                     display_text("h1en"), display_color("h1en"), display_text("h1slp") >>
      [] h = 1 -> << display_text("h2meas"), display_text("h23set"), display_value("h2op"),
                     display_text("h23en"), display_color("h23en"), display_text("h23slp") >>
      [] h = 2 -> << display_text("h3meas"), display_value("h3op") >>
      [] OTHER -> << display_text("h4meas"), display_text("h4set"), display_value("h4op"),
                     display_text("h4en"), display_color("h4en"), display_text("h4slp") >>

\* the port after display_command of each of `commands`
RECURSIVE display_commands(_, _, _)
display_commands(paused, tx, commands) ==
    IF commands = << >> THEN tx
    ELSE display_commands(paused, display_command(paused, tx, Head(commands)),
                          Tail(commands))

\* update(): the HMI port after the update hook of channel h, if it is due
update_hmi_port(h, H, now_ms, paused, tx) ==
    IF hmi_due(H, now_ms) THEN display_commands(paused, tx, HMI_heater_update(h)) ELSE tx

\* variant: stand detection that takes _sleep_delay in seconds
update_sleep_seconds(H, stand_low, now_ms) ==
    IF ~H._enable THEN H
    ELSE IF stand_low
    THEN IF ~H._sleep_delay_running /\ ~H._sleep_state
         THEN [H EXCEPT !._sleep_delay_start_time = now_ms, !._sleep_delay_running = TRUE]
         ELSE IF FGt(now_ms - H._sleep_delay_start_time, FMul(H._sleep_delay, 1000))
         THEN [H EXCEPT !._sleep_state = TRUE, !._sleep_delay_running = FALSE]
         ELSE H
    ELSE [H EXCEPT !._sleep_state = FALSE, !._sleep_delay_running = FALSE]

\* variant: stand detection that also runs for a disabled channel
update_sleep_always(H, stand_low, now_ms) ==
    IF stand_low
    THEN IF ~H._sleep_delay_running /\ ~H._sleep_state
         THEN [H EXCEPT !._sleep_delay_start_time = now_ms, !._sleep_delay_running = TRUE]
         ELSE IF FGt(now_ms - H._sleep_delay_start_time, H._sleep_delay)
         THEN [H EXCEPT !._sleep_state = TRUE, !._sleep_delay_running = FALSE]
         ELSE H
    ELSE [H EXCEPT !._sleep_state = FALSE, !._sleep_delay_running = FALSE]

\* update(): stand detection; stand_low is digitalRead(_stand_sense_pin) == LOW
update_sleep(H, stand_low, now_ms) ==
    IF ~H._enable THEN H
    ELSE IF stand_low
    THEN IF ~H._sleep_delay_running /\ ~H._sleep_state
         THEN [H EXCEPT !._sleep_delay_start_time = now_ms, !._sleep_delay_running = TRUE]
         ELSE IF FGt(now_ms - H._sleep_delay_start_time, H._sleep_delay)
         THEN [H EXCEPT !._sleep_state = TRUE, !._sleep_delay_running = FALSE]
         ELSE H
    ELSE [H EXCEPT !._sleep_state = FALSE, !._sleep_delay_running = FALSE]

(* ------------------------------------------------------------------ *)
(* Command surface (pid.cpp: Heater::enable; Serial_controls.h)        *)
(* ------------------------------------------------------------------ *)
\* A String that is parsed is modelled as the sequence of its characters.
Digits == << "0", "1", "2", "3", "4", "5", "6", "7", "8", "9" >>

isdigit(c) == \E d \in 1 .. 10 : Digits[d] = c

DigitValue(c) == (CHOOSE d \in 1 .. 10 : Digits[d] = c) - 1

\* String::indexOf(ch, from): the first 1-based position >= from holding ch, 0 if none
\* (the C++ positions are 0-based, with -1 for none)
indexOf(text, ch, from) ==
    LET at == {i \in 1 .. Len(text) : i >= from /\ text[i] = ch}
    IN  IF from = 0 \/ at = {} THEN 0 ELSE SetMin(at)

\* String::substring(a, b) for the 1-based positions a .. b - 1
substring(text, a, b) == IF a >= b THEN << >> ELSE SubSeq(text, a, b - 1)

failedParse == << FALSE, 0, 1 >>

\* the scanning loop of parseFloat from position i on: whole is the integer part
\* read so far, fnum / fden the fraction, nb and na the digit counts
RECURSIVE parseFloat_scan(_, _, _, _, _, _, _, _)
parseFloat_scan(text, i, seenDot, nb, na, whole, fnum, fden) ==
    IF i > Len(text) THEN << TRUE, whole * fden + fnum, fden >>
    ELSE IF text[i] = "."
         THEN IF seenDot THEN failedParse
              ELSE parseFloat_scan(text, i + 1, TRUE, nb, na, whole, fnum, fden)
    ELSE IF ~isdigit(text[i]) THEN failedParse
    ELSE IF ~seenDot
         THEN IF nb >= 10 THEN failedParse
              ELSE parseFloat_scan(text, i + 1, seenDot, nb + 1, na,
                                   whole * 10 + DigitValue(text[i]), fnum, fden)
    ELSE IF na >= 10 THEN failedParse
         ELSE parseFloat_scan(text, i + 1, seenDot, nb, na + 1,
                              whole, fnum * 10 + DigitValue(text[i]), fden * 10)

\* parseFloat: <<valid, num, den>>, the parsed number being num / den
parseFloat(input) ==
    LET signed == input # << >> /\ input[1] \in {"-", "+"}
        isNegative == input # << >> /\ input[1] = "-"
        str == IF signed THEN Tail(input) ELSE input
        r == parseFloat_scan(str, 1, FALSE, 0, 0, 0, 0, 1)
    IN  IF str = << >> \/ (~isdigit(str[1]) /\ str[1] # ".") THEN failedParse
        ELSE IF r[1] /\ isNegative THEN << TRUE, 0 - r[2], r[3] >>
        ELSE r

\* the parsed number in a unit of which `scale` make 1.0
parsed(p, scale) == IDiv(p[2] * scale, p[3])

\* String::toInt (atol): the leading integer of the text, 0 if there is none
RECURSIVE toInt_scan(_, _, _)
toInt_scan(text, i, acc) ==
    IF i > Len(text) \/ ~isdigit(text[i]) THEN acc
    ELSE toInt_scan(text, i + 1, acc * 10 + DigitValue(text[i]))

toInt(text) ==
    LET signed == text # << >> /\ text[1] \in {"-", "+"}
        v == toInt_scan(IF signed THEN Tail(text) ELSE text, 1, 0)
    IN  IF text # << >> /\ text[1] = "-" THEN 0 - v ELSE v

\* decimal text of a natural number
RECURSIVE NatString(_)
NatString(n) == IF n < 10 THEN Digits[n + 1] ELSE NatString(n \div 10) \o Digits[(n % 10) + 1]

\* the first `decimals` decimals of frac / scale
RECURSIVE DecimalString(_, _, _)
DecimalString(frac, scale, decimals) ==
    IF decimals = 0 THEN ""
    ELSE Digits[((frac * 10) \div scale) + 1]
         \o DecimalString((frac * 10) % scale, scale, decimals - 1)

\* String(float, decimals) of the number x / scale (digits beyond are cut, not rounded)
String(x, scale, decimals) ==
    IF x = NaN THEN "nan"
    ELSE IF ~IsNum(x) THEN "inf"
    ELSE (IF x < 0 THEN "-" ELSE "")
         \o NatString(Abs(x) \div scale)
         \o (IF decimals > 0 THEN "." ELSE "")
         \o DecimalString(Abs(x) % scale, scale, decimals)

\* parseBool: <<valid, value>>
parseBool(in) == << in = << "1" >> \/ in = << "0" >>, in = << "1" >> >>

\* Heater::enable: the object, the return value and the response text
enable(H, cmd) ==
    IF cmd = << "?" >>
    THEN [heater |-> H, ok |-> TRUE, response |-> IF H._enable THEN "1" ELSE "0"]
    ELSE IF ~parseBool(cmd)[1]
    THEN [heater |-> H, ok |-> FALSE, response |-> ""]
    ELSE [heater |-> pid_reset([H EXCEPT !._enable = parseBool(cmd)[2]]),
          ok |-> TRUE, response |-> "OK"]

\* what a command handler leaves: the object, the chip, its return value, the response
replied(H, mem, text) == [heater |-> H, mem |-> mem, ok |-> TRUE, response |-> text]

rejected(H, mem, text) == [heater |-> H, mem |-> mem, ok |-> FALSE, response |-> text]

\* `return save(response);` at the end of a setter that has written H
returned(H, r) == [heater |-> H, mem |-> r.mem, ok |-> r.ok, response |-> r.response]

saved(H, mem, faults) == returned(H, save(H, mem, faults))

getter == << "?" >>

\* Every setter parses its argument into a local and then works on the local:
\* X(H, cmd, ..) is the handler, X_parsed(H, p, ..) the handler from the return of
\* parseFloat on, p being the <<valid, num, den>> it returned.

\* Heater::temp_set (temperatures are whole degrees)
temp_set_parsed(H, p, mem, faults) ==
    IF ~p[1] THEN rejected(H, mem, "invalid float value")
    ELSE IF FLt(parsed(p, 1), H._temp_sp_min) \/ FGt(parsed(p, 1), H._temp_sp_max)
    THEN rejected(H, mem, "out of bounds")
    ELSE saved([H EXCEPT !._temp_sp = parsed(p, 1),
                         !._pid_TCvoltage_sp = temp_to_tcv(H._tc_cal_table, parsed(p, 1))],
               mem, faults)

temp_set(H, cmd, mem, faults) ==
    IF cmd = getter THEN replied(H, mem, String(H._temp_sp, 1, 2))
    ELSE temp_set_parsed(H, parseFloat(cmd), mem, faults)

\* variant: temp_set_min that stores the value before it checks it against 0
temp_set_min_early(H, p, mem, faults) ==
    IF ~p[1] THEN rejected(H, mem, "invalid float value")
    ELSE IF FGt(parsed(p, 1), H._temp_sp_max) THEN rejected(H, mem, "max < min")
    ELSE IF FLt(parsed(p, 1), 0)
    THEN rejected([H EXCEPT !._temp_sp_min = parsed(p, 1)], mem, "value < 0.0")
    ELSE saved([H EXCEPT !._temp_sp_min = parsed(p, 1)], mem, faults)

\* Heater::temp_set_min
temp_set_min_parsed(H, p, mem, faults) ==
    IF ~p[1] THEN rejected(H, mem, "invalid float value")
    ELSE IF FGt(parsed(p, 1), H._temp_sp_max) THEN rejected(H, mem, "max < min")
    ELSE IF FLt(parsed(p, 1), 0) THEN rejected(H, mem, "value < 0.0")
    ELSE saved([H EXCEPT !._temp_sp_min = parsed(p, 1)], mem, faults)

temp_set_min(H, cmd, mem, faults) ==
    IF cmd = getter THEN replied(H, mem, String(H._temp_sp_min, 1, 0))
    ELSE temp_set_min_parsed(H, parseFloat(cmd), mem, faults)

\* Heater::temp_set_max
temp_set_max_parsed(H, p, mem, faults) ==
    IF ~p[1] THEN rejected(H, mem, "invalid float value")
    ELSE IF FLt(parsed(p, 1), H._temp_sp_min) THEN rejected(H, mem, "min > max")
    ELSE IF FGt(temp_to_tcv(H._tc_cal_table, parsed(p, 1)), H._tc_max_voltage_setpoint)
    THEN rejected(H, mem, "temperature exceeds hardware capability")
    ELSE saved([H EXCEPT !._temp_sp_max = parsed(p, 1)], mem, faults)

temp_set_max(H, cmd, mem, faults) ==
    IF cmd = getter THEN replied(H, mem, String(H._temp_sp_max, 1, 0))
    ELSE temp_set_max_parsed(H, parseFloat(cmd), mem, faults)

\* Heater::temp_measure
temp_measure(H, cmd, mem, faults) ==
    IF cmd = getter THEN replied(H, mem, String(H._temp_pv, 1, 2))
    ELSE rejected(H, mem, "command is read only")

\* Heater::pid_voltage_setpoint (voltages are whole microvolts)
pid_voltage_setpoint_parsed(H, p, mem, faults) ==
    IF ~p[1] THEN rejected(H, mem, "invalid float value")
    ELSE IF FLt(parsed(p, 1), 0) THEN rejected(H, mem, "voltage < 0.0")
    ELSE IF FGt(parsed(p, 1), H._tc_max_voltage_setpoint)
    THEN rejected(H, mem, "voltage > max hardware tcv setpoint")
    ELSE saved([H EXCEPT !._pid_TCvoltage_sp = parsed(p, 1),
                         !._temp_sp = tcv_to_temp(H._tc_cal_table, parsed(p, 1))],
               mem, faults)

pid_voltage_setpoint(H, cmd, mem, faults) ==
    IF cmd = getter THEN replied(H, mem, String(H._pid_TCvoltage_sp, 1, 5))
    ELSE pid_voltage_setpoint_parsed(H, parseFloat(cmd), mem, faults)

\* Heater::tc_read_voltage
tc_read_voltage(H, cmd, mem, faults) ==
    IF cmd = getter THEN replied(H, mem, String(H._pid_TCvoltage_pv, 1, 5))
    ELSE rejected(H, mem, "value is read only")

\* Heater::sleep_delay (milliseconds)
sleep_delay_parsed(H, p, mem, faults) ==
    IF ~p[1] THEN rejected(H, mem, "invalid value")
    ELSE IF FLt(parsed(p, 1), 0) THEN rejected(H, mem, "invalid value < 0")
    ELSE saved([H EXCEPT !._sleep_delay = parsed(p, 1)], mem, faults)

sleep_delay(H, cmd, mem, faults) ==
    IF cmd = getter THEN replied(H, mem, String(H._sleep_delay, 1, 2))
    ELSE sleep_delay_parsed(H, parseFloat(cmd), mem, faults)

\* Heater::sleep_state
sleep_state(H, cmd, mem, faults) ==
    IF cmd = getter THEN replied(H, mem, IF H._sleep_state THEN "1" ELSE "0")
    ELSE rejected(H, mem, "command is read only")

\* Heater::sleep_temp: new_value is temp_to_tcv of the parsed temperature, which
\* the code computes before it looks at the result of parseFloat
sleep_temp_parsed(H, valid, new_value, mem, faults) ==
    IF ~valid THEN rejected(H, mem, "invalid value")
    ELSE IF FLt(new_value, 0) THEN rejected(H, mem, "value < min hardware limit")
    ELSE IF FGt(new_value, H._tc_max_voltage_setpoint)
    THEN rejected(H, mem, "value > max hardware limit")
    ELSE saved([H EXCEPT !._sleep_TCvoltage_set = new_value], mem, faults)

sleep_temp(H, cmd, mem, faults) ==
    IF cmd = getter
    THEN replied(H, mem, String(tcv_to_temp(H._tc_cal_table, H._sleep_TCvoltage_set), 1, 1))
    ELSE sleep_temp_parsed(H, parseFloat(cmd)[1],
                           temp_to_tcv(H._tc_cal_table, parsed(parseFloat(cmd), 1)),
                           mem, faults)

\* Heater::temp_runaway_threshold
temp_runaway_threshold_parsed(H, p, mem, faults) ==
    IF ~p[1] THEN rejected(H, mem, "invalid value")
    ELSE IF FLt(parsed(p, 1), 0) THEN rejected(H, mem, "value < 0.0")
    ELSE IF FGt(temp_to_tcv(H._tc_cal_table, parsed(p, 1)), H._tc_max_voltage_setpoint)
    THEN rejected(H, mem, "value > max hardware limit")
    ELSE saved([H EXCEPT !._temp_runaway_threshold = parsed(p, 1)], mem, faults)

temp_runaway_threshold(H, cmd, mem, faults) ==
    IF cmd = getter THEN replied(H, mem, String(H._temp_runaway_threshold, 1, 1))
    ELSE temp_runaway_threshold_parsed(H, parseFloat(cmd), mem, faults)

\* Heater::pid_cli_gain (gains are fixed point)
pid_cli_gain_parsed(H, p, mem, faults) ==
    IF ~p[1] \/ FLt(parsed(p, FScale), 0) THEN rejected(H, mem, "invalid kp")
    ELSE saved([H EXCEPT !._pid_kp = parsed(p, FScale)], mem, faults)

pid_cli_gain(H, cmd, mem, faults) ==
    IF cmd = getter THEN replied(H, mem, String(H._pid_kp, FScale, 5))
    ELSE pid_cli_gain_parsed(H, parseFloat(cmd), mem, faults)

\* Heater::pid_cli_ki
pid_cli_ki_parsed(H, p, mem, faults) ==
    IF ~p[1] \/ FLt(parsed(p, FScale), 0) THEN rejected(H, mem, "invalid Ki")
    ELSE saved([H EXCEPT !._pid_ki = parsed(p, FScale)], mem, faults)

pid_cli_ki(H, cmd, mem, faults) ==
    IF cmd = getter THEN replied(H, mem, String(H._pid_ki, FScale, 5))
    ELSE pid_cli_ki_parsed(H, parseFloat(cmd), mem, faults)

\* Heater::pid_cli_kd
pid_cli_kd_parsed(H, p, mem, faults) ==
    IF ~p[1] \/ FLt(parsed(p, FScale), 0) THEN rejected(H, mem, "invalid kd")
    ELSE saved([H EXCEPT !._pid_kd = parsed(p, FScale)], mem, faults)

pid_cli_kd(H, cmd, mem, faults) ==
    IF cmd = getter THEN replied(H, mem, String(H._pid_kd, FScale, 5))
    ELSE pid_cli_kd_parsed(H, parseFloat(cmd), mem, faults)

\* Heater::pid_derivative_filter_t
pid_derivative_filter_t_parsed(H, p, mem, faults) ==
    IF ~p[1] THEN rejected(H, mem, "inavalid float value")
    ELSE saved([H EXCEPT !._pid_derivative_filter_tau = parsed(p, FScale)], mem, faults)

pid_derivative_filter_t(H, cmd, mem, faults) ==
    IF cmd = getter THEN replied(H, mem, String(H._pid_derivative_filter_tau, FScale, 5))
    ELSE pid_derivative_filter_t_parsed(H, parseFloat(cmd), mem, faults)

\* Heater::pid_output
pid_output(H, cmd, mem, faults) ==
    IF cmd = getter THEN replied(H, mem, String(H._pid_output, FScale, 4))
    ELSE rejected(H, mem, "value is read only")

\* Heater::tc_cal_table, a request for row `index`
tc_cal_table_request(H, index, mem) ==
    IF index < 0 \/ index >= _tc_cal_table_size THEN rejected(H, mem, "Invalid index")
    ELSE replied(H, mem, "[" \o String(H._tc_cal_table[index + 1][1], 1, 2)
                         \o "," \o String(H._tc_cal_table[index + 1][2], 1, 2) \o "]")

\* Heater::tc_cal_table, a write of the parsed pair x, y to row `index`
tc_cal_table_write(H, index, x, y, mem, faults) ==
    IF index < 0 \/ index >= _tc_cal_table_size THEN rejected(H, mem, "Invalid index")
    ELSE IF ~x[1] \/ ~y[1] THEN rejected(H, mem, "Invalid float value")
    ELSE saved([H EXCEPT !._tc_cal_table[index + 1] = << parsed(x, 1), parsed(y, 1) >>],
               mem, faults)

\* Heater::tc_cal_table, a line with one of '[' ',' ']': bOpen, comma and bClose
\* are the positions indexOf found (0: none)
tc_cal_table_split(H, cmd, bOpen, comma, bClose, mem, faults) ==
    IF bOpen = 0 \/ comma = 0 \/ bClose = 0
    THEN rejected(H, mem, "Format must be index[x,y]")
    ELSE tc_cal_table_write(H, toInt(substring(cmd, 1, bOpen)),
                            parseFloat(substring(cmd, bOpen + 1, comma)),
                            parseFloat(substring(cmd, comma + 1, bClose)), mem, faults)

\* Heater::tc_cal_table; rows are numbered from 0 on the command line
tc_cal_table(H, cmd, mem, faults) ==
    IF cmd = getter THEN replied(H, mem, NatString(_tc_cal_table_size))
    ELSE IF \A i \in 1 .. Len(cmd) : cmd[i] \notin {"[", ",", "]"}
    THEN tc_cal_table_request(H, toInt(cmd), mem)
    ELSE tc_cal_table_split(H, cmd, indexOf(cmd, "[", 1),
                            indexOf(cmd, ",", indexOf(cmd, "[", 1)),
                            indexOf(cmd, "]", indexOf(cmd, ",", indexOf(cmd, "[", 1))),
                            mem, faults)

\* Heater::restore_default_config for tc_s uV/K; the sleep voltage is taken from
\* the table as it is before the new rows are written
restore_default_config_parsed(H, p, mem, faults) ==
    IF ~p[1] THEN rejected(H, mem, "invalid thermocouple S[uV/K]")
    ELSE IF FLe(parsed(p, 1), 0) \/ FGt(parsed(p, 1), 40)
    THEN rejected(H, mem, "S[uV/K] outside of range")
    ELSE saved([H EXCEPT
                  !._pid_TCvoltage_sp = parsed(p, 1),
                  !._temp_sp_min = 100,
                  !._temp_sp_max = 400,
                  !._pid_kp = 0,
                  !._pid_ki = 0,
                  !._pid_kd = 0,
                  !._pid_derivative_filter_tau = FScale \div 4,
                  !._sleep_delay = 30000,
                  !._sleep_TCvoltage_set = temp_to_tcv(H._tc_cal_table, 150),
                  !._temp_runaway_threshold = 480,
                  !._tc_cal_table = [i \in 1 .. _tc_cal_table_size |->
                      << ((450 * (i - 1)) \div (_tc_cal_table_size - 1)) * parsed(p, 1),
                         (450 * (i - 1)) \div (_tc_cal_table_size - 1) >>]],
               mem, faults)

restore_default_config(H, cmd, mem, faults) ==
    restore_default_config_parsed(H, parseFloat(cmd), mem, faults)

\* a received line: the number of ':' separators indexOf finds (at most two are
\* looked for), the id read from the first character (-1: not a digit), the text
\* between the separators and the characters after the second one
Message(id, command, arg) == [colons |-> 2, id |-> id, command |-> command, arg |-> arg]

\* a line with fewer than two separators
Unseparated(id, colons) == [colons |-> colons, id |-> id, command |-> "", arg |-> << >>]

\* the names of commandTable, in table order
commandTable ==
    << "en", "set_t", "meas_t", "meas_uv", "sleep_state", "pid_op", "runaway_t",
       "set_min_t", "set_max_t", "set_uv", "pid_kp", "pid_ki", "pid_kd", "pid_d_tau",
       "sleep_set_t", "sleep_delay", "tc_cal_table", "restore" >>

\* (target.*(commandTable[i].func))(target_cmd, response)
commandTable_func(name, H, cmd, mem, faults) ==
    CASE name = "en" -> enable(H, cmd) @@ [mem |-> mem]
      [] name = "set_t" -> temp_set(H, cmd, mem, faults)
      [] name = "meas_t" -> temp_measure(H, cmd, mem, faults)
      [] name = "meas_uv" -> tc_read_voltage(H, cmd, mem, faults)
      [] name = "sleep_state" -> sleep_state(H, cmd, mem, faults)
      [] name = "pid_op" -> pid_output(H, cmd, mem, faults)
      [] name = "runaway_t" -> temp_runaway_threshold(H, cmd, mem, faults)
      [] name = "set_min_t" -> temp_set_min(H, cmd, mem, faults)
      [] name = "set_max_t" -> temp_set_max(H, cmd, mem, faults)
      [] name = "set_uv" -> pid_voltage_setpoint(H, cmd, mem, faults)
      [] name = "pid_kp" -> pid_cli_gain(H, cmd, mem, faults)
      [] name = "pid_ki" -> pid_cli_ki(H, cmd, mem, faults)
      [] name = "pid_kd" -> pid_cli_kd(H, cmd, mem, faults)
      [] name = "pid_d_tau" -> pid_derivative_filter_t(H, cmd, mem, faults)
      [] name = "sleep_set_t" -> sleep_temp(H, cmd, mem, faults)
      [] name = "sleep_delay" -> sleep_delay(H, cmd, mem, faults)
      [] name = "tc_cal_table" -> tc_cal_table(H, cmd, mem, faults)
      [] name = "restore" -> restore_default_config(H, cmd, mem, faults)

\* eval_serial_command after the handler of heater `id` has returned r
dispatched(hs, id, r) ==
    [heaters |-> [hs EXCEPT ![id] = r.heater], mem |-> r.mem, ok |-> r.ok,
     response |-> r.response]

\* eval_serial_command on the heater array hs and the chip content mem
eval_serial_command(hs, mem, message, faults) ==
    IF message.colons < 2
    THEN [heaters |-> hs, mem |-> mem, ok |-> FALSE,
          response |-> "Malformed command. Format: id:command:value_or_?"]
    ELSE IF message.id \notin DOMAIN hs
    THEN [heaters |-> hs, mem |-> mem, ok |-> FALSE, response |-> "Invalid device ID"]
    ELSE IF \E i \in DOMAIN commandTable : commandTable[i] = message.command
    THEN dispatched(hs, message.id,
                    commandTable_func(message.command, hs[message.id], message.arg,
                                      mem, faults))
    ELSE [heaters |-> hs, mem |-> mem, ok |-> FALSE, response |-> "Unknown command"]

(* ------------------------------------------------------------------ *)
(* Lines from the HMI (display.cpp: Display::read)                     *)
(* ------------------------------------------------------------------ *)
temrinator_legnth == 3

internal_command_prpeamble == << "x", "x", "x" >>

cmd_pause_update == "P"

cmd_resume_update == "R"

\* String::startsWith
startsWith(text, prefix) ==
    Len(text) >= Len(prefix) /\ SubSeq(text, 1, Len(prefix)) = prefix

\* Display::read, the receive loop from byte i on: the position of the byte that
\* completes temrinator_legnth terminators in a row, 0 if the bytes end before
\* (the loop then runs into its timeout)
RECURSIVE read_scan(_, _, _)
read_scan(rx, i, terminator_counter) ==
    IF i > Len(rx) THEN 0
    ELSE LET counter == IF rx[i] = display_terminator THEN terminator_counter + 1 ELSE 0
         IN  IF counter = temrinator_legnth THEN i ELSE read_scan(rx, i + 1, counter)

\* Display::read once the terminator was found: received_data is the line
read_line(paused, received_data) ==
    IF ~startsWith(received_data, internal_command_prpeamble)
    THEN [returned |-> TRUE, message |-> received_data, pause_update |-> paused]
    ELSE LET rest == substring(received_data, Len(internal_command_prpeamble) + 1,
                               Len(received_data) + 1)
             command == IF rest = << >> THEN "" ELSE rest[1]
         IN  [returned |-> FALSE, message |-> << >>,
              pause_update |-> IF command = cmd_pause_update THEN TRUE
                               ELSE IF command = cmd_resume_update THEN FALSE
                               ELSE paused]

\* Display::read with the bytes rx waiting on the port
display_read(paused, rx) ==
    LET last == read_scan(rx, 1, 0)
    IN  IF last = 0
        THEN [returned |-> FALSE, message |-> << >>, pause_update |-> paused]
        ELSE read_line(paused, SubSeq(rx, 1, last - temrinator_legnth))

\* the name of commandTable that the characters `text` spell ("": none of the names
\* the lines of the model use)
command_name(text) == IF text = << "e", "n" >> THEN "en" ELSE ""

\* eval_serial_command, the split of a line of characters at its separators
line_message(text) ==
    LET c1 == indexOf(text, ":", 1)
        c2 == indexOf(text, ":", c1 + 1)
        id == IF text # << >> /\ isdigit(text[1]) THEN DigitValue(text[1]) ELSE 0 - 1
    IN  IF c1 = 0 THEN Unseparated(id, 0)
        ELSE IF c2 = 0 THEN Unseparated(id, 1)
        ELSE Message(id, command_name(substring(text, c1 + 1, c2)),
                     substring(text, c2 + 1, Len(text) + 1))

\* loop(): what is printed on the USB port for one evaluated line
usb_reply(success, response) ==
    (IF ~success THEN << "ERROR " >> ELSE << >>)
    \o (IF response # "" THEN << response >> ELSE << >>)
    \o (IF ~success \/ response # "" THEN << "\n" >> ELSE << >>)

(* ------------------------------------------------------------------ *)
(* Inputs of the model                                                 *)
(* ------------------------------------------------------------------ *)
\* ADC counts the thermocouple input is read at
AdcReadings == {0, AdcFullScale}

\* a persisted record as restore would leave it for S uV/K, with gains set
ConfiguredImage(S, sp, kp, ki) ==
    << sp, 100, 400, kp, ki, 0, FScale \div 4, 1, 150 * S, 480 >>
    \o [j \in 1 .. 2 * _tc_cal_table_size |->
          IF j % 2 = 1 THEN 50 * ((j - 1) \div 2) * S ELSE 50 * ((j - 1) \div 2)]

\* a factory-fresh chip: every byte 0xFF, every float a NaN
BlankImage == [j \in 1 .. eeprom_slots |-> NaN]

ChannelImages ==
    {BlankImage, ConfiguredImage(20, 4950, FScale, 0), ConfiguredImage(40, 4125, FScale, 0)}

\* the chip content that holds image img[h] for channel h
EepromOf(img) ==
    [s \in 0 .. (NumHeaters * eeprom_slots - 1) |->
        img[s \div eeprom_slots][(s % eeprom_slots) + 1]]

\* what digitalRead(_stand_sense_pin) == LOW evaluates to (FALSE: iron in hand)
StandReadings == {FALSE}

\* lines the command surface receives while the mains is on
CommandLines == {Message(h, "en", << a >>) : h \in Heaters, a \in {"0", "1", "x"}}

\* a bus on which every write is acknowledged
NoFaults == [k \in 1 .. eeprom_slots |-> "ok"]

\* the floats of the record (1 .. eeprom_slots) the bus faults of the model hit
NackSlot == 4
LateSlot == 5

\* a bus that refuses one float (the slot keeps its content) and misses the
\* acknowledge of another one (the slot holds the new value)
FaultyBus == [NoFaults EXCEPT ![NackSlot] = "nack", ![LateSlot] = "late"]

\* how the bus behaves during one save
WriteFaults == {NoFaults, FaultyBus}

\* the slots whose read fails on the bus during one load
ReadFaults == {{}, {eeprom_slots - 1}}

\* arguments sent with each command: values the handler accepts, values it refuses
\* and text that is no number
ArgumentsOf(name) ==
    CASE name = "en" -> {<< "0" >>, << "1" >>, << "x" >>, << "?" >>}
      [] name = "set_t" -> {<< "4", "0", "0" >>, << "5", "0", "0" >>, << "a" >>, << "?" >>}
      [] name = "set_min_t" -> {<< "3", "0", "0" >>, << "4", "5", "0" >>, << "-", "1" >>, << >>}
      [] name = "set_max_t" -> {<< "2", "0", "0" >>, << "5", "0" >>, << "9", "0", "0" >>,
                                << "1", ".", "2", "." >>}
      [] name = "set_uv" -> {<< "1", "0", "0", "0" >>, << "-", "5" >>,
                             << "9", "9", "9", "9", "9" >>, << "u" >>}
      [] name = "runaway_t" -> {<< "-", "1" >>, << "9", "0", "0" >>, << "t" >>, << "?" >>}
      [] name = "pid_kp" -> {<< "-", "1" >>, << "k" >>, << "?" >>}
      [] name = "pid_ki" -> {<< "-", "0", ".", "5" >>, << "1", "e", "3" >>}
      [] name = "pid_kd" -> {<< "-", "2" >>, << "-" >>}
      [] name = "pid_d_tau" -> {<< "0", "0", "0", "0", "0", "0", "0", "0", "0", "0", "1" >>,
                                << "?" >>}
      [] name = "sleep_set_t" -> {<< "1", "0", "0" >>, << "-", "1", "0" >>, << "9", "0", "0" >>,
                                  << "s" >>}
      [] name = "sleep_delay" -> {<< "-", "1" >>, << "d" >>, << "?" >>}
      [] name = "tc_cal_table" -> {<< "8", "[", "2", "0", "0", "0", "0", ",", "4", "0", "0", "]" >>,
                                   << "1", "0", "[", "1", ",", "2", "]" >>,
                                   << "3", "[", "1", ";", "2", "]" >>,
                                   << "3", "[", "x", ",", "2", "]" >>,
                                   << "1", "2" >>, << "8" >>, << "?" >>}
      [] name = "restore" -> {<< "2", "0" >>, << "0" >>, << "4", "1" >>, << "r" >>}
      [] OTHER -> {<< "?" >>, << "1" >>}

\* lines the command surface receives while the mains is off: every command of the
\* table for every channel, an unknown command, ids that name no channel and lines
\* that lack a separator
SurfaceLines ==
    UNION {{Message(h, commandTable[i], a) : h \in Heaters, a \in ArgumentsOf(commandTable[i])} :
              i \in DOMAIN commandTable}
    \cup {Message(0, "reboot", << "1" >>), Message(9, "en", << "1" >>),
          Message(0 - 1, "en", << "1" >>), Unseparated(0, 0), Unseparated(0, 1)}

\* lines that write the record: a gain, a setpoint, a table row, the defaults
StoreLines ==
    {Message(h, "pid_kp", a) : h \in Heaters, a \in {<< "1", ".", "5" >>, << "?" >>}}
    \cup {Message(h, "set_t", << "4", "0", "0" >>) : h \in Heaters}
    \cup {Message(h, "tc_cal_table", << "0", "[", "1", "0", ",", "5", "]" >>) : h \in Heaters}
    \cup {Message(h, "restore", << "2", "0" >>) : h \in Heaters}

\* lines the touch panel sends while the mains is off
PanelLines ==
    {Message(h, "en", << "1" >>) : h \in Heaters}
    \cup {Message(h, "set_t", a) : h \in Heaters, a \in {<< "4", "0", "0" >>, << "5", "0", "0" >>}}
    \cup {Unseparated(0, 1)}

(* ------------------------------------------------------------------ *)
(* State                                                               *)
(* ------------------------------------------------------------------ *)
VARIABLES
    heaters,                 \* Heater heaters[]
    pin,                     \* level of each _heater_pin (TRUE = HIGH)
    zero_cross_counter,      \* zero_cross.h
    hartbeat_set_flag,       \* hartbeat.cpp
    hartbeat_output,
    hartbeat_rise_timestamp,
    micros,                  \* the microsecond clock
    eeprom,                  \* content of the EEPROM chip, per float slot
    pc,                      \* position of the main program
    idx,                     \* index of the for loop over the heaters in loop()
    usb_tx,                  \* what the current loop() iteration printed on USB
    hmi_tx,                  \* what the current loop() iteration wrote to the HMI port
    pause_update,            \* Display::pause_update of _hmi
    hmi_rx,                  \* the bytes Display::read took in the current loop() iteration
    \* observers (written by no code; they record what the code did)
    seen_schedule,           \* a schedule tick has happened
    broadcasts,              \* update_output broadcasts since the last schedule tick
    gap,                     \* broadcasts between the last two schedule ticks, -1: none yet
    steady,                  \* per heater: enabled, not scheduled and output unchanged
                             \* since the first broadcast after the last schedule tick
    fired,                   \* per heater: broadcasts of this cycle that drove the pin HIGH
    acquired,                \* per heater: pid_sample calls since the last schedule tick
    regular,                 \* per heater: those that found a previous sample timestamp
    stand_seen,              \* per heater: the last digitalRead(_stand_sense_pin) == LOW
    low_since,               \* per heater: micros() at the last HIGH to LOW edge of the pin
    stand_lifted             \* per heater: the sleep delay is running and the stand sense
                             \* input was HIGH at an update() since it was started

vars == << heaters, pin, zero_cross_counter, hartbeat_set_flag, hartbeat_output,
           hartbeat_rise_timestamp, micros, eeprom, pc, idx, usb_tx, hmi_tx,
           pause_update, hmi_rx, seen_schedule, broadcasts, gap, steady, fired, acquired, regular,
           stand_seen, low_since, stand_lifted >>

pinVars == << pin, low_since >>
standObs == << stand_seen, stand_lifted >>
isrObs == << seen_schedule, broadcasts, gap >>
sampleObs == << acquired, regular >>
driveObs == << steady, fired >>

hartbeatVars == << hartbeat_output, hartbeat_rise_timestamp >>
hmiVars == << hmi_tx, pause_update, hmi_rx >>

millis == micros \div 1000

Init ==
    /\ heaters = [h \in Heaters |-> Heater(h)]
    /\ pin = [h \in Heaters |-> FALSE]
    /\ zero_cross_counter = 0
    /\ hartbeat_set_flag = FALSE
    /\ hartbeat_output = FALSE
    /\ hartbeat_rise_timestamp = 0
    /\ micros = 0
    /\ eeprom \in {EepromOf(img) : img \in [Heaters -> ChannelImages]}
    /\ pc = "setup"
    /\ idx = 0
    /\ usb_tx = << >>
    /\ hmi_tx = << >>
    /\ pause_update = FALSE
    /\ hmi_rx = << >>
    /\ seen_schedule = FALSE
    /\ broadcasts = 0
    /\ gap = 0 - 1
    /\ steady = [h \in Heaters |-> FALSE]
    /\ fired = [h \in Heaters |-> 0]
    /\ acquired = [h \in Heaters |-> 0]
    /\ regular = [h \in Heaters |-> 0]
    /\ stand_seen = [h \in Heaters |-> FALSE]
    /\ low_since = [h \in Heaters |-> 0]
    /\ stand_lifted = [h \in Heaters |-> FALSE]

\* the cooperative context wrote hs2 over hs1: a window stays steady for a heater
\* whose _enable, _sample_scheduled and _pid_output it left alone
\* the pins are written p2: remember when a pin falls
ObservePin(p2) ==
    low_since' = [h \in Heaters |-> IF pin[h] /\ ~p2[h] THEN micros ELSE low_since[h]]

ObserveDrive(hs1, hs2) ==
    LET keep == [h \in Heaters |->
                    /\ steady[h]
                    /\ hs2[h]._enable = hs1[h]._enable
                    /\ hs2[h]._sample_scheduled = hs1[h]._sample_scheduled
                    /\ hs2[h]._pid_output = hs1[h]._pid_output]
    IN  /\ steady' = keep
        /\ fired' = [h \in Heaters |-> IF keep[h] THEN fired[h] ELSE 0]

Bump(n) == IF n < MaxCount THEN n + 1 ELSE n

(* ------------------------------------------------------------------ *)
(* Interrupt context (zero_cross.h)                                    *)
(* ------------------------------------------------------------------ *)
\* variant: op_level taken from the counter after its increment
op_level_incremented(k) == FixDiv(k + 1, _zero_cross_period)

\* op_level = float(zero_cross_counter) / float(_zero_cross_period)
op_level_of(k) == FixDiv(k, _zero_cross_period)

\* variant: a cycle of _zero_cross_period ticks, the schedule tick included
isr_schedules_early(k) == k >= _zero_cross_period - 1

\* variant: the counter is compared with > instead of >=
isr_schedules_late(k) == k > _zero_cross_period

\* the tick is a sample-scheduling tick
isr_schedules(k) == k >= _zero_cross_period

zero_cross_isr ==
    /\ hartbeat_set_flag' = TRUE
    /\ IF isr_schedules(zero_cross_counter)
       THEN /\ heaters' = [h \in Heaters |-> pid_schedule_sample(heaters[h], micros)]
            /\ pin' = [h \in Heaters |-> FALSE]
            /\ zero_cross_counter' = 0
            /\ gap' = IF seen_schedule THEN broadcasts ELSE gap
            /\ seen_schedule' = TRUE
            /\ broadcasts' = 0
            /\ steady' = [h \in Heaters |-> FALSE]
            /\ fired' = [h \in Heaters |-> 0]
            /\ acquired' = [h \in Heaters |-> 0]
            /\ regular' = [h \in Heaters |-> 0]
       ELSE /\ pin' = [h \in Heaters |->
                         update_output(heaters[h], op_level_of(zero_cross_counter))]
            /\ zero_cross_counter' = zero_cross_counter + 1
            /\ broadcasts' = broadcasts + 1
            /\ steady' = [h \in Heaters |->
                            IF broadcasts = 0
                            THEN heaters[h]._enable /\ ~heaters[h]._sample_scheduled
                            ELSE steady[h]]
            /\ fired' = [h \in Heaters |->
                           IF steady'[h] THEN fired[h] + (IF pin'[h] THEN 1 ELSE 0) ELSE 0]
            /\ UNCHANGED << heaters, gap, seen_schedule, sampleObs >>
    /\ ObservePin(pin')
    /\ UNCHANGED << hmiVars, standObs >>
    /\ UNCHANGED << hartbeatVars, micros, eeprom, pc, idx, usb_tx >>

(* ------------------------------------------------------------------ *)
(* Cooperative context (main.cpp, Heater.cpp, hartbeat.cpp)            *)
(* ------------------------------------------------------------------ *)
\* setup(): hartbeat_set() and init() of every heater, while the reads of the
\* slots in one of `buses` fail on the bus
setup_bus(buses) ==
    /\ pc = "setup"
    /\ hartbeat_set_flag' = TRUE
    /\ \E bus_fails \in buses :
          heaters' = [h \in Heaters |-> init(heaters[h], eeprom, bus_fails)]
    /\ pin' = [h \in Heaters |-> FALSE]
    /\ ObservePin(pin')
    /\ pc' = "update_hartbeat"
    /\ ObserveDrive(heaters, heaters')
    /\ UNCHANGED << hmiVars, standObs >>
    /\ UNCHANGED << zero_cross_counter, hartbeatVars, micros, eeprom, idx, usb_tx,
                    isrObs, sampleObs >>

setup == setup_bus({{}})

\* variant: the pulse width taken in milliseconds
hartbeat_expired_millis(now, rise) == now - rise > _hartbeat_pulse_width \div 1000

\* update_hartbeat(): the pulse has lasted longer than its width
hartbeat_expired(now, rise) == now - rise > _hartbeat_pulse_width

update_hartbeat ==
    /\ pc = "update_hartbeat"
    /\ IF hartbeat_set_flag
       THEN /\ hartbeat_set_flag' = FALSE
            /\ hartbeat_output' = TRUE
            /\ hartbeat_rise_timestamp' = micros
       ELSE /\ hartbeat_output' =
                  IF hartbeat_expired(micros, hartbeat_rise_timestamp)
                  THEN FALSE ELSE hartbeat_output
            /\ UNCHANGED << hartbeat_set_flag, hartbeat_rise_timestamp >>
    /\ pc' = "update_check"
    /\ idx' = 0
    /\ usb_tx' = << >>
    /\ hmi_tx' = << >>
    /\ hmi_rx' = << >>
    /\ UNCHANGED << pause_update, standObs >>
    /\ UNCHANGED << heaters, pinVars, zero_cross_counter, micros, eeprom,
                    isrObs, sampleObs, driveObs >>

\* Heater::update of heaters[idx], the test for a due sample
update_check ==
    /\ pc = "update_check"
    /\ pc' = IF sample_due(heaters[idx], micros) THEN "update_sample" ELSE "update_compute"
    /\ UNCHANGED << hmiVars, standObs >>
    /\ UNCHANGED << heaters, pinVars, zero_cross_counter, hartbeat_set_flag, hartbeatVars,
                    micros, eeprom, idx, usb_tx, isrObs, sampleObs, driveObs >>

\* Heater::update: pid_sample()
update_sample ==
    /\ pc = "update_sample"
    /\ \E adc \in AdcReadings :
          /\ heaters' = [heaters EXCEPT ![idx] = pid_sample(@, adc, micros)]
          /\ pin' = IF pid_runaway(pid_acquire(heaters[idx], adc, micros), adc)
                    THEN [pin EXCEPT ![idx] = FALSE]
                    ELSE pin
    /\ ObservePin(pin')
    /\ pc' = "update_store"
    /\ ObserveDrive(heaters, heaters')
    /\ acquired' = [acquired EXCEPT ![idx] = Bump(@)]
    /\ regular' = [regular EXCEPT ![idx] =
                      IF heaters'[idx]._pid_TCvoltsge_pv_old_timestamp # 0
                      THEN Bump(@) ELSE @]
    /\ UNCHANGED << hmiVars, standObs >>
    /\ UNCHANGED << zero_cross_counter, hartbeat_set_flag, hartbeatVars, micros, eeprom,
                    idx, usb_tx, isrObs >>

\* Heater::update: the store to _sample_scheduled after pid_sample()
update_clear ==
    /\ pc = "update_store"
    /\ heaters' = [heaters EXCEPT ![idx] = update_store(@)]
    /\ pc' = "update_compute"
    /\ ObserveDrive(heaters, heaters')
    /\ UNCHANGED << hmiVars, standObs >>
    /\ UNCHANGED << pinVars, zero_cross_counter, hartbeat_set_flag, hartbeatVars, micros,
                    eeprom, idx, usb_tx, isrObs, sampleObs >>

\* Heater::update: PID compute, HMI cadence and stand detection, while the stand
\* sense input reads one of `readings`
update_reading(readings) ==
    /\ pc = "update_compute"
    /\ \E stand_low \in readings :
          /\ heaters' = [heaters EXCEPT ![idx] =
                           update_sleep(update_hmi(update_pid(@), millis), stand_low, millis)]
          /\ stand_seen' = IF heaters[idx]._enable
                           THEN [stand_seen EXCEPT ![idx] = stand_low]
                           ELSE stand_seen
          /\ stand_lifted' = [stand_lifted EXCEPT ![idx] =
                                 /\ heaters'[idx]._sleep_delay_running
                                 /\ heaters[idx]._sleep_delay_running
                                 /\ (@ \/ ~stand_low)]
    /\ IF idx + 1 < NumHeaters
       THEN pc' = "update_check" /\ idx' = idx + 1
       ELSE pc' = "serial" /\ idx' = 0
    /\ hmi_tx' = update_hmi_port(idx, heaters[idx], millis, pause_update, hmi_tx)
    /\ ObserveDrive(heaters, heaters')
    /\ UNCHANGED << pinVars, zero_cross_counter, hartbeat_set_flag, hartbeatVars, micros,
                    eeprom, usb_tx, pause_update, hmi_rx, isrObs, sampleObs >>

update_rest == update_reading(StandReadings)

\* loop(): nothing is waiting on the USB port
usb_idle ==
    /\ pc = "serial"
    /\ pc' = "hmi"
    /\ UNCHANGED << hmiVars, standObs >>
    /\ UNCHANGED << heaters, pinVars, zero_cross_counter, hartbeat_set_flag, hartbeatVars,
                    micros, eeprom, idx, usb_tx, isrObs, sampleObs, driveObs >>

\* loop(): what eval_serial_command returned as r takes effect and is printed
usb_answered(r) ==
    /\ heaters' = r.heaters
    /\ eeprom' = r.mem
    /\ usb_tx' = usb_reply(r.ok, r.response)

\* loop(): a line from the USB port, one of `lines`, is evaluated and answered
\* while the EEPROM bus behaves as one of `buses`
usb_line(lines, buses) ==
    /\ pc = "serial"
    /\ \E message \in lines, faults \in buses :
          usb_answered(eval_serial_command(heaters, eeprom, message, faults))
    /\ pc' = "hmi"
    /\ ObserveDrive(heaters, heaters')
    /\ UNCHANGED << hmiVars, standObs >>
    /\ UNCHANGED << pinVars, zero_cross_counter, hartbeat_set_flag, hartbeatVars, micros,
                    idx, isrObs, sampleObs >>

serial_usb == usb_line(CommandLines, {NoFaults})

\* loop(): _hmi.read() has no message
hmi_idle ==
    /\ pc = "hmi"
    /\ pc' = "update_hartbeat"
    /\ UNCHANGED << hmiVars, standObs >>
    /\ UNCHANGED << heaters, pinVars, zero_cross_counter, hartbeat_set_flag, hartbeatVars,
                    micros, eeprom, idx, usb_tx, isrObs, sampleObs, driveObs >>

\* loop(): what eval_serial_command returned as r takes effect
hmi_evaluated(r) ==
    /\ heaters' = r.heaters
    /\ eeprom' = r.mem

\* loop(): a line from the HMI port is evaluated; nothing is printed
hmi_line(lines, buses) ==
    /\ pc = "hmi"
    /\ \E message \in lines, faults \in buses :
          hmi_evaluated(eval_serial_command(heaters, eeprom, message, faults))
    /\ pc' = "update_hartbeat"
    /\ ObserveDrive(heaters, heaters')
    /\ UNCHANGED << hmiVars, standObs >>
    /\ UNCHANGED << pinVars, zero_cross_counter, hartbeat_set_flag, hartbeatVars, micros,
                    idx, usb_tx, isrObs, sampleObs >>

serial_hmi == hmi_line(CommandLines, {NoFaults})

\* loop(): what _hmi.read() made of the bytes rx as d takes effect
hmi_received(rx, d) ==
    /\ hmi_rx' = rx
    /\ pause_update' = d.pause_update
    /\ IF d.returned
       THEN hmi_evaluated(eval_serial_command(heaters, eeprom, line_message(d.message),
                                              NoFaults))
       ELSE UNCHANGED << heaters, eeprom >>

\* loop(): bytes wait on the HMI port, one of `frames`: _hmi.read() takes them and
\* the line it returns, if any, is evaluated
hmi_read(frames) ==
    /\ pc = "hmi"
    /\ \E rx \in frames : hmi_received(rx, display_read(pause_update, rx))
    /\ pc' = "update_hartbeat"
    /\ ObserveDrive(heaters, heaters')
    /\ UNCHANGED << pinVars, zero_cross_counter, hartbeat_set_flag, hartbeatVars, micros,
                    idx, usb_tx, hmi_tx, standObs, isrObs, sampleObs >>

\* time passes
advance_time ==
    /\ micros + TimeStep <= MaxTime
    /\ micros' = micros + TimeStep
    /\ UNCHANGED << hmiVars, standObs >>
    /\ UNCHANGED << heaters, pinVars, zero_cross_counter, hartbeat_set_flag, hartbeatVars,
                    eeprom, pc, idx, usb_tx, isrObs, sampleObs, driveObs >>

Next ==
    \/ zero_cross_isr
    \/ setup
    \/ update_hartbeat
    \/ update_check
    \/ update_sample
    \/ update_clear
    \/ update_rest
    \/ usb_idle
    \/ serial_usb
    \/ hmi_idle
    \/ serial_hmi
    \/ advance_time

Spec == Init /\ [][Next]_vars

(* ------------------------------------------------------------------ *)
(* The command surface, mains off: no zero-cross tick arrives, every   *)
(* command of the table does                                           *)
(* ------------------------------------------------------------------ *)
usb_command == usb_line(SurfaceLines, {NoFaults})

hmi_command == hmi_line(PanelLines, {NoFaults})

NextCommands ==
    \/ setup
    \/ update_hartbeat
    \/ update_check
    \/ update_rest
    \/ usb_idle
    \/ usb_command
    \/ hmi_idle
    \/ hmi_command

SpecCommands == Init /\ [][NextCommands]_vars

(* ------------------------------------------------------------------ *)
(* The EEPROM record, mains off: saves and loads on a bus that may     *)
(* fail, and power cycles between them                                 *)
(* ------------------------------------------------------------------ *)
power_up == setup_bus(ReadFaults)

usb_store == usb_line(StoreLines, WriteFaults)

hmi_store == hmi_line(PanelLines, WriteFaults)

\* the supply is cycled: the program starts over, the chip keeps its content
power_cycle ==
    /\ pc = "serial"
    /\ heaters' = [h \in Heaters |-> Heater(h)]
    /\ pin' = [h \in Heaters |-> FALSE]
    /\ zero_cross_counter' = 0
    /\ hartbeat_set_flag' = FALSE
    /\ hartbeat_output' = FALSE
    /\ hartbeat_rise_timestamp' = 0
    /\ micros' = 0
    /\ pc' = "setup"
    /\ idx' = 0
    /\ usb_tx' = << >>
    /\ hmi_tx' = << >>
    /\ pause_update' = FALSE
    /\ hmi_rx' = << >>
    /\ seen_schedule' = FALSE
    /\ broadcasts' = 0
    /\ gap' = 0 - 1
    /\ steady' = [h \in Heaters |-> FALSE]
    /\ fired' = [h \in Heaters |-> 0]
    /\ acquired' = [h \in Heaters |-> 0]
    /\ regular' = [h \in Heaters |-> 0]
    /\ stand_seen' = [h \in Heaters |-> FALSE]
    /\ low_since' = [h \in Heaters |-> 0]
    /\ stand_lifted' = [h \in Heaters |-> FALSE]
    /\ UNCHANGED eeprom

NextStorage ==
    \/ power_up
    \/ update_hartbeat
    \/ update_check
    \/ update_rest
    \/ usb_idle
    \/ usb_store
    \/ hmi_idle
    \/ hmi_store
    \/ power_cycle

SpecStorage == Init /\ [][NextStorage]_vars

(* ------------------------------------------------------------------ *)
(* The stand, mains off: the iron is put on the stand and lifted while *)
(* the millisecond clock runs                                          *)
(* ------------------------------------------------------------------ *)
\* the `en` lines that switch a channel on and off
EnableLines == {Message(h, "en", << a >>) : h \in Heaters, a \in {"0", "1"}}

usb_enable == usb_line(EnableLines, {NoFaults})

update_stand == update_reading(BOOLEAN)

\* one millisecond passes
tick_ms ==
    /\ micros + MillisStep <= MaxTime
    /\ micros' = micros + MillisStep
    /\ UNCHANGED << heaters, pinVars, zero_cross_counter, hartbeat_set_flag, hartbeatVars,
                    eeprom, pc, idx, usb_tx, hmiVars, isrObs, sampleObs, driveObs,
                    standObs >>

NextStand ==
    \/ setup
    \/ update_hartbeat
    \/ update_check
    \/ update_stand
    \/ usb_idle
    \/ usb_enable
    \/ hmi_idle
    \/ tick_ms

SpecStand == Init /\ [][NextStand]_vars

(* ------------------------------------------------------------------ *)
(* The stand, mains on: a configured channel regulates while the iron  *)
(* is put on the stand and lifted                                      *)
(* ------------------------------------------------------------------ *)
InitSleep ==
    /\ Init
    /\ eeprom = EepromOf([h \in Heaters |-> ConfiguredImage(20, 4950, FScale, 0)])

NextSleep ==
    \/ zero_cross_isr
    \/ setup
    \/ update_hartbeat
    \/ update_check
    \/ update_sample
    \/ update_clear
    \/ update_stand
    \/ usb_idle
    \/ usb_enable
    \/ hmi_idle
    \/ advance_time

SpecSleep == InitSleep /\ [][NextSleep]_vars

(* ------------------------------------------------------------------ *)
(* The panel, mains off: the HMI sends its lines while the clock runs  *)
(* past the HMI update interval                                        *)
(* ------------------------------------------------------------------ *)
\* a line of characters as the HMI sends it, three terminator bytes after it
Frame(text) == text \o << display_terminator, display_terminator, display_terminator >>

\* what the HMI sends: pause, resume, pause with an argument, the bare preamble, a command behind the
\* preamble, the two `en` commands, a line without separators and one that the
\* HMI does not finish
HmiFrames ==
    { Frame(<< "x", "x", "x", "P" >>),
      Frame(<< "x", "x", "x", "R" >>),
      Frame(<< "x", "x", "x", "P", "1" >>),
      Frame(<< "x", "x", "x" >>),
      Frame(<< "x", "x", "x", "0", ":", "e", "n", ":", "1" >>),
      Frame(<< "0", ":", "e", "n", ":", "1" >>),
      Frame(<< "0", ":", "e", "n", ":", "0" >>),
      Frame(<< "x", "x" >>),
      << "0", ":", "e", "n", ":", "1", display_terminator, display_terminator >> }

hmi_frame == hmi_read(HmiFrames)

\* time passes, more than one HMI update interval
tick_panel ==
    /\ micros + PanelStep <= MaxPanelTime
    /\ micros' = micros + PanelStep
    /\ UNCHANGED << heaters, pinVars, zero_cross_counter, hartbeat_set_flag, hartbeatVars,
                    eeprom, pc, idx, usb_tx, hmiVars, isrObs, sampleObs, driveObs,
                    standObs >>

NextPanel ==
    \/ setup
    \/ update_hartbeat
    \/ update_check
    \/ update_rest
    \/ usb_idle
    \/ hmi_idle
    \/ hmi_frame
    \/ tick_panel

SpecPanel == InitSleep /\ [][NextPanel]_vars

(* ------------------------------------------------------------------ *)
(* The calibration table, mains off: rows are written that repeat a    *)
(* neighbouring row or put it back                                     *)
(* ------------------------------------------------------------------ *)
\* tc_cal_table lines: row 1 as row 0 of the default table, row 1 and row 5 of the
\* default table for 20 uV/K, row 5 as row 4 of that table
TableLines ==
    {Message(h, "tc_cal_table", a) :
        h \in Heaters,
        a \in {<< "1", "[", "0", ",", "0", "]" >>,
               << "1", "[", "1", "0", "0", "0", ",", "5", "0", "]" >>,
               << "5", "[", "4", "0", "0", "0", ",", "2", "0", "0", "]" >>,
               << "5", "[", "5", "0", "0", "0", ",", "2", "5", "0", "]" >>}}

usb_table == usb_line(TableLines \cup EnableLines, {NoFaults})

NextTable ==
    \/ setup
    \/ update_hartbeat
    \/ update_check
    \/ update_rest
    \/ usb_idle
    \/ usb_table
    \/ hmi_idle

SpecTable == Init /\ [][NextTable]_vars

(* ------------------------------------------------------------------ *)
(* Restoring the defaults, mains off: restore is the only command of   *)
(* the USB port, on channels calibrated for either thermocouple        *)
(* ------------------------------------------------------------------ *)
\* restore lines: two sensitivities in (0, 40], one on and one beyond the limits
RestoreLines ==
    {Message(h, "restore", a) :
        h \in Heaters, a \in {<< "2", "0" >>, << "4", "0" >>, << "0" >>, << "4", "1" >>}}

usb_restore == usb_line(RestoreLines, {NoFaults})

NextRestore ==
    \/ setup
    \/ update_hartbeat
    \/ update_check
    \/ update_rest
    \/ usb_idle
    \/ usb_restore
    \/ hmi_idle
    \/ hmi_command

SpecRestore == Init /\ [][NextRestore]_vars

(* ------------------------------------------------------------------ *)
(* The heartbeat: the mains is cut after MaxBeatTicks zero crossings   *)
(* while the loop and the clock keep running                           *)
(* ------------------------------------------------------------------ *)
\* a zero crossing of the mains, while it is on
zero_cross_beat ==
    /\ zero_cross_counter < MaxBeatTicks
    /\ zero_cross_isr

\* time passes: up to MaxBeatTime, and on while a heartbeat pulse is running
tick_beat ==
    /\ \/ micros + BeatStep <= MaxBeatTime
       \/ hartbeat_output /\ ~hartbeat_expired(micros, hartbeat_rise_timestamp)
    /\ micros' = micros + BeatStep
    /\ UNCHANGED << heaters, pinVars, zero_cross_counter, hartbeat_set_flag, hartbeatVars,
                    eeprom, pc, idx, usb_tx, hmiVars, isrObs, sampleObs, driveObs,
                    standObs >>

\* the steps of loop(); no sample is scheduled before the mains is cut
LoopBeat ==
    \/ update_hartbeat
    \/ update_check
    \/ update_rest
    \/ usb_idle
    \/ usb_enable
    \/ hmi_idle

NextBeat ==
    \/ zero_cross_beat
    \/ setup
    \/ LoopBeat
    \/ tick_beat

\* loop() never blocks and the timer behind micros() never stops
SpecBeat == InitSleep /\ [][NextBeat]_vars /\ WF_vars(LoopBeat) /\ WF_vars(tick_beat)

(* ------------------------------------------------------------------ *)
(* The integrator: a channel with an integral gain, sampled once per    *)
(* step of the clock                                                   *)
(* ------------------------------------------------------------------ *)
\* a record with ki = 2, kp = 0 and the setpoint at the span of the input
IntegralImage == ConfiguredImage(20, (ADC_VREF_mV * 1000) \div tc_gain_of(0), 0, 2 * FScale)

\* lines that give a channel an integral gain and switch it on
IntegralLines ==
    {Message(h, "pid_ki", << "2" >>) : h \in Heaters}
    \cup {Message(h, "en", << "1" >>) : h \in Heaters}

usb_gain == usb_line(IntegralLines, {NoFaults})

tick_cycle ==
    /\ micros + CycleStep <= MaxCycleTime
    /\ micros' = micros + CycleStep
    /\ UNCHANGED << heaters, pinVars, zero_cross_counter, hartbeat_set_flag, hartbeatVars,
                    eeprom, pc, idx, usb_tx, hmiVars, isrObs, sampleObs, driveObs,
                    standObs >>

InitIntegral ==
    /\ Init
    /\ eeprom \in {EepromOf([h \in Heaters |-> img]) : img \in {BlankImage, IntegralImage}}

NextIntegral ==
    \/ zero_cross_isr
    \/ setup
    \/ update_hartbeat
    \/ update_check
    \/ update_sample
    \/ update_clear
    \/ update_rest
    \/ usb_idle
    \/ usb_gain
    \/ hmi_idle
    \/ tick_cycle

SpecIntegral == InitIntegral /\ [][NextIntegral]_vars

(* ------------------------------------------------------------------ *)
(* The bank: the four channels of heaters[] and their records on the   *)
(* chip, mains off                                                     *)
(* ------------------------------------------------------------------ *)
\* Heater heaters[4]
_heater_count == 4

Bank == 0 .. (_heater_count - 1)

\* the chip content that holds image img[h] for channel h of the bank
BankEeprom(img) ==
    [s \in 0 .. (_heater_count * eeprom_slots - 1) |->
        img[s \div eeprom_slots][(s % eeprom_slots) + 1]]

\* lines that write the record of one channel of the bank
BankLines ==
    {Message(h, "pid_kp", << "1", ".", "5" >>) : h \in Bank}
    \cup {Message(h, "restore", << "2", "0" >>) : h \in Bank}

\* what the chip holds at power-up: written records next to blank ones
BankImages ==
    {[h \in Bank |-> IF h \in written THEN ConfiguredImage(20, 4950, FScale, 0)
                     ELSE BlankImage] : written \in {{0, 1}, {1, 2}}}

InitBank ==
    /\ heaters = [h \in Bank |-> Heater(h)]
    /\ pin = [h \in Heaters |-> FALSE]
    /\ zero_cross_counter = 0
    /\ hartbeat_set_flag = FALSE
    /\ hartbeat_output = FALSE
    /\ hartbeat_rise_timestamp = 0
    /\ micros = 0
    /\ eeprom \in {BankEeprom(img) : img \in BankImages}
    /\ pc = "setup"
    /\ idx = 0
    /\ usb_tx = << >>
    /\ hmi_tx = << >>
    /\ pause_update = FALSE
    /\ hmi_rx = << >>
    /\ seen_schedule = FALSE
    /\ broadcasts = 0
    /\ gap = 0 - 1
    /\ steady = [h \in Heaters |-> FALSE]
    /\ fired = [h \in Heaters |-> 0]
    /\ acquired = [h \in Heaters |-> 0]
    /\ regular = [h \in Heaters |-> 0]
    /\ stand_seen = [h \in Heaters |-> FALSE]
    /\ low_since = [h \in Heaters |-> 0]
    /\ stand_lifted = [h \in Heaters |-> FALSE]

\* setup(): init() of every channel of the bank
setup_bank ==
    /\ pc = "setup"
    /\ hartbeat_set_flag' = TRUE
    /\ heaters' = [h \in Bank |-> init(heaters[h], eeprom, {})]
    /\ pc' = "update_hartbeat"
    /\ ObserveDrive(heaters, heaters')
    /\ UNCHANGED << hmiVars, standObs >>
    /\ UNCHANGED << pinVars, zero_cross_counter, hartbeatVars, micros, eeprom, idx, usb_tx,
                    isrObs, sampleObs >>

\* loop(): update() of every channel of the bank; no sample is scheduled
\* while the mains is off
update_bank ==
    /\ pc = "update_check"
    /\ heaters' = [h \in Bank |->
                     update_sleep(update_hmi(update_pid(heaters[h]), millis), FALSE, millis)]
    /\ pc' = "serial"
    /\ ObserveDrive(heaters, heaters')
    /\ UNCHANGED << hmiVars, standObs >>
    /\ UNCHANGED << pinVars, zero_cross_counter, hartbeat_set_flag, hartbeatVars, micros,
                    eeprom, idx, usb_tx, isrObs, sampleObs >>

usb_bank == usb_line(BankLines, {NoFaults})

NextBank ==
    \/ setup_bank
    \/ update_hartbeat
    \/ update_bank
    \/ usb_idle
    \/ usb_bank
    \/ hmi_idle

SpecBank == InitBank /\ [][NextBank]_vars

(* ------------------------------------------------------------------ *)
(* One sample window: the mains is cut after the first sample-          *)
(* scheduling tick, the loop and the clock run on                      *)
(* ------------------------------------------------------------------ *)
\* the zero-cross interrupt up to the end of the cycle the first schedule opens
zero_cross_window ==
    /\ ~(seen_schedule /\ isr_schedules(zero_cross_counter))
    /\ zero_cross_isr

\* the operator switches the channel before the first window opens
usb_early ==
    /\ ~seen_schedule
    /\ usb_enable

\* time passes: up to MaxTime, and on while a scheduled sample is not due yet
tick_window ==
    /\ \/ micros + TimeStep <= MaxTime
       \/ \E h \in Heaters :
             heaters[h]._sample_scheduled /\ ~sample_due(heaters[h], micros)
    /\ micros' = micros + TimeStep
    /\ UNCHANGED << heaters, pinVars, zero_cross_counter, hartbeat_set_flag, hartbeatVars,
                    eeprom, pc, idx, usb_tx, hmiVars, isrObs, sampleObs, driveObs,
                    standObs >>

\* the steps of loop()
LoopWindow ==
    \/ update_hartbeat
    \/ update_check
    \/ update_sample
    \/ update_clear
    \/ update_rest
    \/ usb_idle
    \/ usb_early
    \/ hmi_idle

NextWindow ==
    \/ zero_cross_window
    \/ setup
    \/ LoopWindow
    \/ tick_window

\* the main program moves on: setup() and every statement of loop() end at
\* another position, and none of them waits
LoopRuns ==
    \E p \in {"update_hartbeat", "update_check", "update_sample", "update_store",
              "update_compute", "serial", "hmi"} :
        p # pc /\ pc' = p

SpecWindow ==
    /\ InitSleep
    /\ [][NextWindow]_vars
    /\ WF_pc(LoopRuns)
    /\ WF_vars(zero_cross_window)
    /\ WF_vars(tick_window)

(* ------------------------------------------------------------------ *)
(* The setpoints, mains off: a configured channel is given setpoints,  *)
(* table rows and the defaults over the USB port                       *)
(* ------------------------------------------------------------------ *)
\* a temperature and a voltage inside the limits, row 5 of the default table for
\* 20 uV/K moved by ten degrees and put back, the defaults for either thermocouple
SetpointLines ==
    {Message(h, c[1], c[2]) :
        h \in Heaters,
        c \in {<< "set_t", << "3", "0", "0" >> >>,
               << "set_uv", << "3", "0", "0", "0" >> >>,
               << "tc_cal_table", << "5", "[", "5", "0", "0", "0", ",", "2", "6", "0", "]" >> >>,
               << "tc_cal_table", << "5", "[", "5", "0", "0", "0", ",", "2", "5", "0", "]" >> >>,
               << "restore", << "2", "0" >> >>,
               << "restore", << "4", "0" >> >>}}

usb_setpoint == usb_line(SetpointLines, {NoFaults})

NextSetpoint ==
    \/ setup
    \/ update_hartbeat
    \/ update_check
    \/ update_rest
    \/ usb_idle
    \/ usb_setpoint
    \/ hmi_idle

SpecSetpoint == InitSleep /\ [][NextSetpoint]_vars

(* ------------------------------------------------------------------ *)
(* Properties                                                          *)
(* ------------------------------------------------------------------ *)
\* the heater the main loop is working on
Current == heaters[idx]

\* C1: in every reachable state a channel whose enable flag is false has its
\* heater pin LOW, also right after an `en` command with argument 0 returned
\* and before the next zero-cross tick.
C1_DisabledPinLow ==
    \A h \in Heaters : ~heaters[h]._enable => ~pin[h]

\* C2: in every reachable state a channel whose sample_scheduled flag is true
\* has its heater pin LOW.
C2_ScheduledPinLow ==
    \A h \in Heaters : heaters[h]._sample_scheduled => ~pin[h]

\* C2, the case: update_output broadcasts reached an enabled channel with a
\* positive output inside its sample window and left the pin LOW
C2_Witness ==
    \E h \in Heaters :
        /\ heaters[h]._sample_scheduled
        /\ heaters[h]._enable
        /\ FGt(heaters[h]._pid_output, 0)
        /\ zero_cross_counter > 0
        /\ ~pin[h]

\* pid_sample of the current heater has just returned with a temperature above
\* the runaway threshold
RunawayAcquired ==
    /\ pc = "update_store"
    /\ FGt(Current._temp_pv, Current._temp_runaway_threshold)

\* the step is the evaluation of an `en` line with argument 1 for heater h
EnableCommanded(h) ==
    /\ pc \in {"serial", "hmi"}
    /\ heaters' = eval_serial_command(heaters, eeprom, Message(h, "en", << "1" >>),
                                    NoFaults).heaters

\* C3: when pid_sample yields temp_pv > temp_runaway_threshold, then on its
\* completion the channel has enable false, output 0 and the pin LOW, and no
\* PID compute is pending for that sample; a compute becomes pending only by
\* another pid_sample, and enable goes from false to true only by the
\* evaluation of an `en` command with argument 1.
C3_RunawayTrip ==
    /\ [](RunawayAcquired =>
            /\ ~Current._enable
            /\ Current._pid_output = 0
            /\ ~pin[idx]
            /\ ~Current._pid_update_pending)
    /\ [][\A h \in Heaters :
            /\ (~heaters[h]._enable /\ heaters'[h]._enable) => EnableCommanded(h)
            /\ (~heaters[h]._pid_update_pending /\ heaters'[h]._pid_update_pending)
                  => (pc = "update_sample" /\ idx = h)
            /\ (~heaters[h]._enable /\ ~heaters'[h]._enable /\ heaters[h]._pid_output = 0)
                  => heaters'[h]._pid_output = 0]_vars

\* C3, the case: an acquisition above a configured threshold has completed
C3_Witness ==
    /\ RunawayAcquired
    /\ Current._temp_runaway_threshold = 480
    /\ Current._pid_TCvoltage_pv = adc_to_uv(AdcFullScale, Current._tc_gain)
    /\ ~Current._enable
    /\ acquired[idx] > 0

\* the persisted record of H was loaded: its configuration holds numbers
Configured(H) ==
    /\ IsNum(H._temp_runaway_threshold)
    /\ IsNum(H._pid_TCvoltage_sp)
    /\ IsNum(H._pid_kp)

\* the PID state as pid_reset leaves it
PidIsReset(H) ==
    /\ H._pid_integral = 0
    /\ ~H._pid_update_pending
    /\ H._pid_output = 0
    /\ H._pid_TCvoltsge_pv_old_timestamp = 0
    /\ H._pid_TCvoltage_pv_timestamp = 0

\* C4: an acquisition whose raw ADC reading is the full-scale count of the
\* 12-bit ADC disables the channel, resets its PID state and drives the heater
\* LOW, whatever temp_pv and the threshold are (stated for an enabled channel
\* with a loaded configuration).
C4_FullScaleTrips ==
    [][(/\ pc = "update_sample"
        /\ pc' = "update_store"
        /\ Current._enable
        /\ Configured(Current)
        /\ heaters'[idx]._pid_TCvoltage_pv = adc_to_uv(AdcFullScale, Current._tc_gain))
       => (~heaters'[idx]._enable /\ PidIsReset(heaters'[idx]) /\ ~pin'[idx])]_vars

\* C5: for every channel and every reachable state 0 <= output <= 1.
C5_OutputInRange ==
    \A h \in Heaters :
        FLe(0, heaters[h]._pid_output) /\ FLe(heaters[h]._pid_output, FScale)

\* the smallest integer that is at least a / b, for a >= 0 and b > 0
CeilDiv(a, b) == (a + b - 1) \div b

\* the update_output broadcasts of one cycle are over and heater h was enabled,
\* outside a sample window and at one output in [0, 1] through all of them
SteadyCycle(h) ==
    /\ zero_cross_counter = _zero_cross_period
    /\ steady[h]
    /\ FLe(0, heaters[h]._pid_output)
    /\ FLe(heaters[h]._pid_output, FScale)

\* C6 as amended: over the _zero_cross_period broadcasts of a cycle during
\* which a channel has enable true, sample_scheduled false and a constant
\* output in [0, 1], the heater is driven HIGH in ceil(output * N) of them.
C6_FiredIsCeil ==
    \A h \in Heaters :
        SteadyCycle(h) =>
            fired[h] = CeilDiv(heaters[h]._pid_output * _zero_cross_period, FScale)

\* C6 as written: over such a window the heater is driven HIGH in
\* floor(output * N) half-cycles, also for outputs that are no multiple of 1/N.
C6_FiredIsFloor ==
    \A h \in Heaters :
        SteadyCycle(h) =>
            fired[h] = (heaters[h]._pid_output * _zero_cross_period) \div FScale

\* C6, the case: a steady cycle at output 0.25 has fired 3 times
C6_Witness ==
    \E h \in Heaters :
        /\ SteadyCycle(h)
        /\ heaters[h]._pid_output = FScale \div 4
        /\ fired[h] = 3

\* k / N < output, without the fixed-point quotient
LevelBelowOutput(k, H) ==
    /\ H._pid_output # NaN
    /\ k * FScale < H._pid_output * _zero_cross_period

\* C7: on every zero-cross tick that is not a sample-scheduling tick the pin of
\* each channel is left HIGH iff enable && !sample_scheduled && k/N < output for
\* the counter value k of the tick; with N = 10 and output 0.3 an enabled
\* channel outside its sample window is HIGH exactly for k in {0, 1, 2}.
C7_DriveRule ==
    [][zero_cross_counter' = zero_cross_counter + 1 =>
         \A h \in Heaters :
            /\ pin'[h] <=> (/\ heaters[h]._enable
                            /\ ~heaters[h]._sample_scheduled
                            /\ LevelBelowOutput(zero_cross_counter, heaters[h]))
            /\ (/\ _zero_cross_period = 10
                /\ heaters[h]._pid_output = (3 * FScale) \div 10
                /\ heaters[h]._enable
                /\ ~heaters[h]._sample_scheduled)
               => (pin'[h] <=> zero_cross_counter \in {0, 1, 2})]_vars

\* C7, the case: the tick with k = 2 has left an enabled channel at output 0.3 HIGH
C7_Witness ==
    \E h \in Heaters :
        /\ zero_cross_counter = 3
        /\ broadcasts = 3
        /\ steady[h]
        /\ heaters[h]._pid_output = (3 * FScale) \div 10
        /\ fired[h] = 3
        /\ pin[h]

\* C8 as amended: between two consecutive sample-scheduling ticks a channel
\* performs at most one acquisition that finds the timestamp of a previous
\* sample and is no runaway trip (the first acquisition after a PID reset and
\* every acquisition of a runaway trip are followed by another one).
C8_OneRegularSample ==
    \A h \in Heaters : regular[h] <= 1

\* C8 as written: a channel performs at most one pid_sample call in a window of
\* N ticks, also in the windows after a PID reset, an enable command or a
\* runaway trip.
C8_OneSample ==
    \A h \in Heaters : acquired[h] <= 1

\* C8, the case: a second acquisition in one cycle, one of them a regular one
C8_Witness ==
    \E h \in Heaters : acquired[h] = 2 /\ regular[h] = 1

\* every op_level the scheduler broadcasts is a multiple of 1/N
LevelsAreMultiples ==
    /\ zero_cross_counter \in 0 .. _zero_cross_period
    /\ zero_cross_counter < _zero_cross_period =>
          op_level_of(zero_cross_counter) * _zero_cross_period = zero_cross_counter * FScale

C10_ComputeSkipsFirstSample ==
    (/\ pc = "update_compute"
     /\ Current._pid_update_pending
     /\ Current._enable
     /\ Configured(Current)
     /\ ~pid_oversampled(Current))
    => Current._pid_TCvoltsge_pv_old_timestamp # 0

\* what pid_compute works on besides the sample
PidState(H) ==
    << H._pid_output, H._pid_integral, H._pid_derivative_prev_e_t, H._pid_update_pending >>

\* the step is the compute part of update() for the current heater
ComputeStep == pc = "update_compute" /\ pc' # "update_compute"

\* C11: within a channel a PID compute only runs on an acquisition made since the
\* previous compute or reset, and an acquisition feeds at most one compute: the
\* compute part of update() touches the PID state only when _pid_update_pending and
\* _enable are both set, the flag is clear when it is done, and the flag is only
\* ever raised by the sample step of that channel.
C11_ComputeConsumesSample ==
    /\ [][(ComputeStep /\ PidState(heaters'[idx]) # PidState(heaters[idx]))
            => /\ heaters[idx]._pid_update_pending
               /\ heaters[idx]._enable
               /\ ~heaters'[idx]._pid_update_pending]_vars
    /\ [][\A h \in Heaters :
            (~heaters[h]._pid_update_pending /\ heaters'[h]._pid_update_pending)
            => (pc = "update_sample" /\ h = idx)]_vars
    /\ [][\A h \in Heaters :
            (ComputeStep /\ h = idx /\ heaters[h]._enable)
            => ~heaters'[h]._pid_update_pending]_vars

\* C11, the case: a compute has consumed an acquisition and produced an output
C11_Witness ==
    /\ pc = "serial"
    /\ Configured(heaters[0])
    /\ heaters[0]._enable
    /\ ~heaters[0]._pid_update_pending
    /\ heaters[0]._pid_TCvoltsge_pv_old_timestamp # 0
    /\ IsNum(heaters[0]._pid_output)
    /\ heaters[0]._pid_output > 0

\* every persisted float of the channel is a number
NumericRecord(H) == \A k \in 1 .. eeprom_slots : IsNum(persisted(H)[k])

\* setup() has run
Started == pc # "setup"

\* C12: after init and any sequence of commands every channel that holds a numeric
\* record has temp_sp_min <= temp_sp <= temp_sp_max.
C12_SetpointWithinLimits ==
    \A h \in Heaters :
        (Started /\ NumericRecord(heaters[h]) /\ IsNum(heaters[h]._temp_sp))
        => /\ heaters[h]._temp_sp_min <= heaters[h]._temp_sp
           /\ heaters[h]._temp_sp <= heaters[h]._temp_sp_max

\* C13: after init and any sequence of commands every channel that holds a numeric
\* record has temp_to_tcv(temp_sp_max) <= tc_max_voltage_setpoint, with the table
\* the channel holds now.
C13_MaxWithinHardware ==
    \A h \in Heaters :
        (Started /\ NumericRecord(heaters[h]))
        => FLe(temp_to_tcv(heaters[h]._tc_cal_table, heaters[h]._temp_sp_max),
               heaters[h]._tc_max_voltage_setpoint)

\* C14: after init and any sequence of commands both voltage setpoints of every
\* channel that holds a numeric record are within 0 .. tc_max_voltage_setpoint.
C14_VoltageSetpointsInRange ==
    \A h \in Heaters :
        (Started /\ NumericRecord(heaters[h]))
        => /\ 0 <= heaters[h]._pid_TCvoltage_sp
           /\ heaters[h]._pid_TCvoltage_sp <= heaters[h]._tc_max_voltage_setpoint
           /\ 0 <= heaters[h]._sleep_TCvoltage_set
           /\ heaters[h]._sleep_TCvoltage_set <= heaters[h]._tc_max_voltage_setpoint

\* C15: after any sequence of accepted tc_cal_table writes and restore commands the
\* table of every channel that holds a numeric record is non-decreasing in both
\* columns.
C15_TableMonotone ==
    \A h \in Heaters :
        (Started /\ NumericRecord(heaters[h]))
        => \A i \in 1 .. (_tc_cal_table_size - 1) :
              /\ heaters[h]._tc_cal_table[i][1] <= heaters[h]._tc_cal_table[i + 1][1]
              /\ heaters[h]._tc_cal_table[i][2] <= heaters[h]._tc_cal_table[i + 1][2]

\* the step is setup(): every channel is loaded
LoadStep == pc = "setup" /\ pc' # "setup"

\* C16: load is all-or-nothing: a load in which one of the 30 float reads fails
\* (on the bus, or by reading a NaN) leaves every persisted field of the channel
\* and temp_sp as they were before the call; only a load whose reads all succeed
\* changes them.
C16_LoadAllOrNothing ==
    [][LoadStep =>
         \A h \in Heaters :
            \/ /\ load_memory_ok(heaters[h], eeprom, {})
               /\ heaters'[h] = init(heaters[h], eeprom, {})
            \/ /\ persisted(heaters'[h]) = persisted(heaters[h])
               /\ heaters'[h]._temp_sp = heaters[h]._temp_sp]_vars

\* the 10 scalars of the record in the order the claim names them
RecordScalars(H) ==
    << H._pid_TCvoltage_sp, H._temp_sp_min, H._temp_sp_max, H._pid_kp, H._pid_ki, H._pid_kd,
       H._pid_derivative_filter_tau, H._sleep_delay, H._sleep_TCvoltage_set,
       H._temp_runaway_threshold >>

\* no persisted float of the channel is a NaN
StorableRecord(H) == \A k \in 1 .. eeprom_slots : persisted(H)[k] # NaN

\* C17: a save of a channel on a flawless bus succeeds, lays the 10 scalars out in
\* the order tc_voltage_sp, temp_sp_min, temp_sp_max, kp, ki, kd, derivative_tau,
\* sleep_delay_ms, sleep_voltage_sp, temp_runaway_threshold followed by the table
\* pairs, and a load of the channel on a flawless bus after it succeeds and gives
\* each of the 10 scalars and 20 table values its value from before the save.
C17_SaveLoadRoundTrip ==
    \A h \in Heaters :
        LET H == heaters[h]
            base == H._start_address \div 4
            r == save(H, eeprom, NoFaults)
            L == load_memory(Heater(h), r.mem, {})
        IN  (Started /\ StorableRecord(H))
            => /\ r.ok
               /\ \A k \in 1 .. 10 : r.mem[base + k - 1] = RecordScalars(H)[k]
               /\ \A i \in 1 .. _tc_cal_table_size :
                     /\ r.mem[base + 10 + 2 * (i - 1)] = H._tc_cal_table[i][1]
                     /\ r.mem[base + 11 + 2 * (i - 1)] = H._tc_cal_table[i][2]
               /\ load_memory_ok(Heater(h), r.mem, {})
               /\ RecordScalars(L) = RecordScalars(H)
               /\ L._tc_cal_table = H._tc_cal_table

\* C17, the case: a gain that only the pid_kp command of the model sets has been
\* saved, the supply was cycled and setup() has loaded it back
C17_Witness ==
    /\ pc = "update_hartbeat"
    /\ hartbeat_set_flag
    /\ heaters[0]._pid_kp = (3 * FScale) \div 2
    /\ heaters[0]._pid_ki = 0
    /\ heaters[0]._temp_sp_max = 400

\* bus behaviours a save is examined under: flawless, the first, the last or an
\* inner float refused or unacknowledged, and two faults in one save
SaveFaults ==
    {NoFaults, FaultyBus}
    \cup {[NoFaults EXCEPT ![k] = "nack"] : k \in {1, eeprom_slots}}
    \cup {[NoFaults EXCEPT ![k] = "late"] : k \in {1, eeprom_slots}}

\* C18: a save attempts all 30 float writes even when an earlier one fails; it
\* returns false with "FAIL TO SAVE" exactly when at least one write failed and
\* true with "OK" otherwise; the value the set command put in memory is kept in
\* both cases.
C18_SaveAttemptsAll ==
    \A message \in StoreLines, faults \in SaveFaults :
        LET h == message.id
            base == heaters[h]._start_address \div 4
            r == eval_serial_command(heaters, eeprom, message, faults)
            clean == eval_serial_command(heaters, eeprom, message, NoFaults)
            written == persisted(r.heaters[h])
        IN  (pc = "serial" /\ clean.response = "OK")
            => /\ r.ok = (faults = NoFaults)
               /\ r.response = (IF faults = NoFaults THEN "OK" ELSE "FAIL TO SAVE")
               /\ \A k \in 1 .. eeprom_slots :
                     r.mem[base + k - 1] =
                        IF faults[k] = "nack" THEN eeprom[base + k - 1]
                        ELSE written[k]
               /\ r.heaters = clean.heaters
               /\ (message.command = "pid_kp") => r.heaters[h]._pid_kp = (3 * FScale) \div 2

\* C18, the case: a pid_kp command was answered FAIL TO SAVE; memory holds the new
\* gain, the refused float kept its content and the floats after it were written
C18_Witness ==
    /\ pc = "hmi"
    /\ usb_tx = << "ERROR ", "FAIL TO SAVE", "\n" >>
    /\ heaters[0]._pid_kp = (3 * FScale) \div 2
    /\ eeprom[NackSlot - 1] = FScale
    /\ \A k \in (NackSlot + 1) .. eeprom_slots : eeprom[k - 1] = persisted(heaters[0])[k]
    /\ NumericRecord(heaters[0])

\* the step is the evaluation of a line from the USB port
UsbStep == pc = "serial" /\ pc' = "hmi" /\ usb_tx' # << >>

\* C19: a command that is rejected (a malformed line, an id that names no channel,
\* an unknown command, an argument that does not parse or is out of range, a write
\* to a read-only value) leaves the in-memory state of every channel and the
\* content of the EEPROM as they were.  A rejected line is answered "ERROR" with
\* any body but "FAIL TO SAVE", which answers an accepted command whose save failed.
C19_RejectedChangesNothing ==
    [][(/\ UsbStep
        /\ Head(usb_tx') = "ERROR "
        /\ usb_tx' # << "ERROR ", "FAIL TO SAVE", "\n" >>)
       => (heaters' = heaters /\ eeprom' = eeprom)]_vars

\* C19, the case: an out-of-range set_min_t was refused on a channel that holds a
\* numeric record
C19_Witness ==
    /\ pc = "hmi"
    /\ usb_tx = << "ERROR ", "value < 0.0", "\n" >>
    /\ NumericRecord(heaters[0])
    /\ heaters[0]._temp_sp_min = 100

\* C20: every rejected command is answered with a body that says what is wrong:
\* no reply to a line from the USB port is the bare word ERROR.
C20_RejectionHasBody ==
    (pc = "hmi" /\ usb_tx # << >> /\ Head(usb_tx) = "ERROR ")
    => (Len(usb_tx) = 3 /\ usb_tx[2] # "")

\* a zero-cross tick: the only step that writes the counter, and it always does
ZeroCrossTick == zero_cross_counter' # zero_cross_counter

\* C30: the zero-cross counter k stays within 0 .. N.  A tick that finds k >= N
\* schedules a sample on every channel (flag set, timestamp taken, pin LOW),
\* issues no update_output and resets k to 0, whatever state the main loop left
\* the channels in; every other tick leaves the channels alone, broadcasts
\* update_output with op_level = k/N in [0, 1) and increments k.  A channel's
\* sample_scheduled flag is raised on no other step.
C30_SchedulerCycle ==
    /\ [](zero_cross_counter \in 0 .. _zero_cross_period)
    /\ [][ZeroCrossTick =>
            IF zero_cross_counter >= _zero_cross_period
            THEN /\ zero_cross_counter' = 0
                 /\ broadcasts' = 0
                 /\ \A h \in Heaters :
                       /\ heaters'[h] = [heaters[h] EXCEPT
                                            !._sample_scheduled = TRUE,
                                            !._sample_Schedule_timestamp = micros]
                       /\ ~pin'[h]
            ELSE /\ zero_cross_counter' = zero_cross_counter + 1
                 /\ broadcasts' = broadcasts + 1
                 /\ heaters' = heaters
                 /\ (zero_cross_counter * FScale) \div _zero_cross_period \in 0 .. (FScale - 1)
                 /\ \A h \in Heaters :
                       pin'[h] = update_output(heaters[h],
                                    (zero_cross_counter * FScale) \div _zero_cross_period)]_vars
    /\ [][\A h \in Heaters :
            (~heaters[h]._sample_scheduled /\ heaters'[h]._sample_scheduled)
            => (zero_cross_counter >= _zero_cross_period /\ zero_cross_counter' = 0)]_vars

\* C30, the case: a tick at k = N found a channel whose previous sample window the
\* loop had closed, and scheduled it again
C30_Witness ==
    \E h \in Heaters :
        /\ seen_schedule
        /\ gap = _zero_cross_period
        /\ zero_cross_counter = 0
        /\ broadcasts = 0
        /\ heaters[h]._sample_scheduled
        /\ heaters[h]._sample_Schedule_timestamp = micros
        /\ heaters[h]._pid_TCvoltsge_pv_old_timestamp # 0

\* what was printed on the USB port is one response: a body and the terminator,
\* or the prefix ERROR, a body (possibly empty) and the terminator
OneUsbResponse(tx) ==
    \/ Len(tx) = 2 /\ tx[1] # "ERROR " /\ tx[2] = "\n"
    \/ Len(tx) = 2 /\ tx = << "ERROR ", "\n" >>
    \/ Len(tx) = 3 /\ tx[1] = "ERROR " /\ tx[3] = "\n"

\* the step is the evaluation of a line from the HMI port that changed a channel
HmiStep == pc = "hmi" /\ pc' = "update_hartbeat" /\ heaters' # heaters

\* C21: every command line is answered once at the port it came from: a line from
\* the USB port with one response on the USB port (body and terminator, with the
\* prefix ERROR on failure), a line from the HMI port with a response on the HMI
\* port.
C21_OneResponsePerLine ==
    [][/\ UsbStep => OneUsbResponse(usb_tx')
       /\ HmiStep => (Len(hmi_tx') > Len(hmi_tx) /\ usb_tx' = usb_tx)]_vars

\* the step is the end of update() of heaters[idx]
UpdateStep == pc = "update_compute" /\ pc' # pc

\* the states of the sleep machine of H
AWAKE(H) == ~H._sleep_delay_running /\ ~H._sleep_state
STAND_PENDING(H) == H._sleep_delay_running /\ ~H._sleep_state
SLEEP(H) == H._sleep_state

\* the update() of this step belongs to an enabled channel and read the stand
\* sense input LOW
ReadsLow == UpdateStep /\ Current._enable /\ stand_seen'[idx]

\* C22 as amended: an update() of an enabled channel in STAND_PENDING that reads
\* the stand sense input LOW at a time now with now - start > sleep_delay_ms
\* moves the channel to SLEEP; at now - start = sleep_delay_ms it leaves the
\* channel in STAND_PENDING.  (With a delay of 1 ms the channel is still pending
\* at start + 1 and asleep at start + 2, as with 1000 ms at start + 1001.)
C22_SleepAfterDelay ==
    [][(ReadsLow /\ STAND_PENDING(Current))
       => /\ FGt(millis - Current._sleep_delay_start_time, Current._sleep_delay)
             => SLEEP(heaters'[idx])
          /\ millis - Current._sleep_delay_start_time = Current._sleep_delay
             => STAND_PENDING(heaters'[idx])]_vars

\* C22 as written: an update() of an enabled channel in STAND_PENDING that reads
\* the stand sense input LOW at a time now with now - start >= sleep_delay_ms,
\* equality included, moves the channel to SLEEP.
C22_SleepAtDelay ==
    [][(/\ ReadsLow
        /\ STAND_PENDING(Current)
        /\ FGe(millis - Current._sleep_delay_start_time, Current._sleep_delay))
       => SLEEP(heaters'[idx])]_vars

\* C22, the case: a channel with a delay of 1 ms fell asleep 2 ms after the iron
\* was put on the stand
C22_Witness ==
    \E h \in Heaters :
        /\ pc = "serial"
        /\ heaters[h]._enable
        /\ stand_seen[h]
        /\ SLEEP(heaters[h])
        /\ heaters[h]._sleep_delay = 1
        /\ millis = heaters[h]._sleep_delay_start_time + 2

\* the sleep state, the delay flag and the delay start of H
SleepFields(H) == << H._sleep_state, H._sleep_delay_running, H._sleep_delay_start_time >>

\* C23: the sleep logic follows the transition table and nothing else.  An
\* update() of an enabled channel that reads the stand LOW takes AWAKE to
\* STAND_PENDING and records the time, leaves STAND_PENDING for SLEEP or not at
\* all, and stays in SLEEP; one that reads HIGH ends in AWAKE from any state, on
\* that same update(); in no state are the delay flag and sleep_state both set;
\* an update() of a disabled channel and every step that is no update() leave
\* sleep_state, sleep_delay_running and sleep_delay_start_ms alone.
C23_SleepMachine ==
    /\ [](\A h \in Heaters : ~(heaters[h]._sleep_delay_running /\ heaters[h]._sleep_state))
    /\ [][ReadsLow =>
            /\ AWAKE(Current) =>
                  /\ STAND_PENDING(heaters'[idx])
                  /\ heaters'[idx]._sleep_delay_start_time = millis
            /\ STAND_PENDING(Current) =>
                  /\ STAND_PENDING(heaters'[idx]) \/ SLEEP(heaters'[idx])
                  /\ heaters'[idx]._sleep_delay_start_time = Current._sleep_delay_start_time
            /\ SLEEP(Current) => SleepFields(heaters'[idx]) = SleepFields(Current)]_vars
    /\ [][(UpdateStep /\ Current._enable /\ ~stand_seen'[idx]) =>
            /\ AWAKE(heaters'[idx])
            /\ heaters'[idx]._sleep_delay_start_time = Current._sleep_delay_start_time]_vars
    /\ [][(~UpdateStep \/ ~Current._enable) =>
            \A h \in Heaters : SleepFields(heaters'[h]) = SleepFields(heaters[h])]_vars

\* C23, the case: a sleeping channel was switched off, and its update() ran on
\* with the iron still on the stand
C23_Witness ==
    \E h \in Heaters :
        /\ pc = "serial"
        /\ ~heaters[h]._enable
        /\ SLEEP(heaters[h])
        /\ stand_seen[h]
        /\ millis > heaters[h]._sleep_delay_start_time + 2

\* the setpoint a compute regulates to: the sleep setpoint while asleep
Setpoint(H) == IF H._sleep_state THEN H._sleep_TCvoltage_set ELSE H._pid_TCvoltage_sp

\* (sp - pv) / tc_max_voltage_setpoint, as the difference of the two normalised terms
NormalisedError(H, sp) ==
    FSub(FixDiv(sp, H._tc_max_voltage_setpoint),
         FixDiv(H._pid_TCvoltage_pv, H._tc_max_voltage_setpoint))

\* the compute part of update() runs pid_compute past its oversampling guard
ComputePasses(H) == H._pid_update_pending /\ H._enable /\ ~pid_oversampled(H)

\* kp = 1, ki = kd = 0, tc_max = 1000 uV, setpoint 500 uV, reading 200 uV, awake
ExampleHeater ==
    [Heater(0) EXCEPT !._pid_kp = FScale, !._pid_ki = 0, !._pid_kd = 0,
                      !._tc_max_voltage_setpoint = 1000,
                      !._pid_TCvoltage_sp = 500, !._pid_TCvoltage_pv = 200,
                      !._sleep_state = FALSE,
                      !._pid_TCvoltsge_pv_old_timestamp = 0,
                      !._pid_TCvoltage_pv_timestamp = TimeStep]

\* C24: a PID compute that passes the oversampling guard regulates to the sleep
\* setpoint when _sleep_state is set and to the working setpoint otherwise, with
\* error (sp - pv) / _tc_max_voltage_setpoint; with ki = kd = 0 its output is
\* kp * error clamped to [0, 1], and kp = 1, tc_max = 1000, sp = 500, pv = 200
\* gives 0.3.
C24_SetpointSelection ==
    /\ [][(ComputeStep /\ ComputePasses(heaters[idx])
              /\ heaters[idx]._pid_ki = 0 /\ heaters[idx]._pid_kd = 0)
            => heaters'[idx]._pid_output =
                 constrain(FixMul(heaters[idx]._pid_kp,
                                  NormalisedError(heaters[idx], Setpoint(heaters[idx]))),
                           0, FScale)]_vars
    /\ [][ComputeStep
            => pid_compute(ExampleHeater)._pid_output = (3 * FScale) \div 10]_vars

\* C24, the case: a sleeping channel has been regulated to its sleep setpoint,
\* which is not the output the working setpoint gives
C24_Witness ==
    /\ pc = "serial"
    /\ heaters[0]._enable
    /\ heaters[0]._sleep_state
    /\ heaters[0]._pid_kp = FScale
    /\ heaters[0]._pid_ki = 0
    /\ heaters[0]._pid_kd = 0
    /\ ~heaters[0]._pid_update_pending
    /\ ~pid_oversampled(heaters[0])
    /\ heaters[0]._pid_output = NormalisedError(heaters[0], heaters[0]._sleep_TCvoltage_set)
    /\ heaters[0]._pid_output # NormalisedError(heaters[0], heaters[0]._pid_TCvoltage_sp)
    /\ heaters[0]._pid_output > 0

\* the step is the HMI part of loop() and took bytes from the port
ReadStep == pc = "hmi" /\ pc' = "update_hartbeat" /\ hmi_rx' # << >>

\* the bytes are a complete line: text and three terminator bytes
CompleteLine(rx) ==
    /\ Len(rx) >= temrinator_legnth
    /\ \A i \in 1 .. Len(rx) :
          (rx[i] = display_terminator) <=> (i > Len(rx) - temrinator_legnth)

\* the text of a complete line
LineText(rx) == SubSeq(rx, 1, Len(rx) - temrinator_legnth)

\* the complete line is an internal line whose command is `letter`
InternalLine(rx, letter) ==
    /\ CompleteLine(rx)
    /\ Len(LineText(rx)) >= 4
    /\ SubSeq(LineText(rx), 1, 4) = << "x", "x", "x", letter >>

\* the complete line begins with the preamble
BeginsWithPreamble(rx) ==
    /\ CompleteLine(rx)
    /\ Len(LineText(rx)) >= 3
    /\ \A i \in 1 .. 3 : LineText(rx)[i] = "x"

\* C25: from the internal line xxxP until xxxR no update hook writes a byte to the
\* HMI port, and after xxxR a due update writes again; a line that begins with xxx
\* is never given to the command parser, every other complete line is.
C25_PauseResume ==
    /\ [][(ReadStep /\ InternalLine(hmi_rx', "P")) => pause_update']_vars
    /\ [][(ReadStep /\ InternalLine(hmi_rx', "R")) => ~pause_update']_vars
    /\ [][(pause_update' # pause_update)
            => (ReadStep /\ InternalLine(hmi_rx', IF pause_update THEN "R" ELSE "P"))]_vars
    /\ [][pause_update => hmi_tx' \in {hmi_tx, << >>}]_vars
    /\ [][(UpdateStep /\ ~pause_update /\ hmi_due(heaters[idx], millis))
            => (Len(hmi_tx') > Len(hmi_tx)
                /\ SubSeq(hmi_tx', 1, Len(hmi_tx)) = hmi_tx)]_vars
    /\ [][(ReadStep /\ BeginsWithPreamble(hmi_rx'))
            => (heaters' = heaters /\ eeprom' = eeprom)]_vars
    /\ [][(ReadStep /\ CompleteLine(hmi_rx') /\ ~BeginsWithPreamble(hmi_rx'))
            => LET r == eval_serial_command(heaters, eeprom,
                                            line_message(LineText(hmi_rx')), NoFaults)
               IN  heaters' = r.heaters /\ eeprom' = r.mem]_vars

\* C25, the case: an update hook was due while updates are paused, and the port
\* has stayed silent
C25_Witness ==
    /\ pc = "serial"
    /\ pause_update
    /\ heaters[0]._hmi_last_update_timestamp = millis
    /\ millis > _hmi_update_interval
    /\ hmi_tx = << >>

\* the step is update_hartbeat()
HartbeatStep == pc = "update_hartbeat" /\ pc' = "update_check"

\* C26: the first update_hartbeat() after a zero-cross tick that set the flag drives
\* the heartbeat pin HIGH; the pin falls only in an update_hartbeat() made more than
\* the pulse width after the last rise and rises only after a tick; once the ticks
\* have stopped and the loop keeps running, the pin ends up LOW and stays LOW.
C26_HartbeatDecay ==
    /\ [][(HartbeatStep /\ hartbeat_set_flag)
            => (hartbeat_output' /\ ~hartbeat_set_flag'
                /\ hartbeat_rise_timestamp' = micros)]_vars
    /\ [][(hartbeat_output /\ ~hartbeat_output')
            => (HartbeatStep /\ ~hartbeat_set_flag
                /\ micros - hartbeat_rise_timestamp > _hartbeat_pulse_width)]_vars
    /\ [][(~hartbeat_output /\ hartbeat_output') => hartbeat_set_flag]_vars
    /\ [][(~hartbeat_set_flag /\ hartbeat_set_flag')
            => (ZeroCrossTick \/ pc = "setup")]_vars
    /\ <>[](~hartbeat_output)

\* C26, the case: the mains is gone, the pulse of the last tick has been driven and
\* has decayed
C26_Witness ==
    /\ zero_cross_counter = MaxBeatTicks
    /\ hartbeat_rise_timestamp > 0
    /\ ~hartbeat_set_flag
    /\ ~hartbeat_output
    /\ micros - hartbeat_rise_timestamp > _hartbeat_pulse_width

\* the step runs in interrupt context: the zero-cross ISR, between two steps of
\* the cooperative code
IsrContext == pc' = pc /\ micros' = micros

\* the step is one of the cooperative code, setup() or loop()
LoopContext == pc' # pc

\* PID state and the timestamps the sampling keeps
PidFields(H) ==
    << H._pid_integral, H._pid_derivative_prev_e_t, H._pid_update_pending,
       H._pid_TCvoltage_pv, H._temp_pv, H._pid_TCvoltsge_pv_old_timestamp,
       H._pid_TCvoltage_pv_timestamp >>

\* the timestamps besides those of the sampling and of the schedule
LoopTimestamps(H) == << H._sleep_delay_start_time, H._hmi_last_update_timestamp >>

\* what the ISR reads of a channel and the cooperative code alone writes
DriveFields(H) == << H._enable, H._pid_output >>

\* C27 as stated: zero_cross_counter and the heartbeat flag change only in
\* interrupt context; PID state, every timestamp (the sample-schedule timestamp
\* included) and the sleep state change only in the cooperative code; _enable,
\* _pid_output and _sample_scheduled change only in the cooperative code.
C27_WriteDiscipline ==
    /\ [][(zero_cross_counter' # zero_cross_counter
             \/ hartbeat_set_flag' # hartbeat_set_flag) => IsrContext]_vars
    /\ [][(\/ hartbeat_rise_timestamp' # hartbeat_rise_timestamp
           \/ \E h \in Heaters :
                 \/ PidFields(heaters'[h]) # PidFields(heaters[h])
                 \/ LoopTimestamps(heaters'[h]) # LoopTimestamps(heaters[h])
                 \/ heaters'[h]._sample_Schedule_timestamp
                      # heaters[h]._sample_Schedule_timestamp
                 \/ SleepFields(heaters'[h]) # SleepFields(heaters[h])
                 \/ DriveFields(heaters'[h]) # DriveFields(heaters[h])
                 \/ heaters'[h]._sample_scheduled # heaters[h]._sample_scheduled)
            => LoopContext]_vars

\* C27, amended: zero_cross_counter changes only in interrupt context; the
\* heartbeat flag is raised only by the ISR and by setup() and cleared only by
\* update_hartbeat(); _sample_scheduled is raised and the sample-schedule timestamp
\* written only by the ISR, on its scheduling tick, and _sample_scheduled is cleared
\* only by the cooperative code; PID state, the other timestamps, the sleep state,
\* _enable and _pid_output change only in the cooperative code.
C27_SharedWrites ==
    /\ [][zero_cross_counter' # zero_cross_counter => IsrContext]_vars
    /\ [][(~hartbeat_set_flag /\ hartbeat_set_flag')
            => (IsrContext \/ pc = "setup")]_vars
    /\ [][(hartbeat_set_flag /\ ~hartbeat_set_flag') => HartbeatStep]_vars
    /\ [][\A h \in Heaters :
            (\/ ~heaters[h]._sample_scheduled /\ heaters'[h]._sample_scheduled
             \/ heaters'[h]._sample_Schedule_timestamp
                  # heaters[h]._sample_Schedule_timestamp)
            => (IsrContext /\ isr_schedules(zero_cross_counter))]_vars
    /\ [][\A h \in Heaters :
            (heaters[h]._sample_scheduled /\ ~heaters'[h]._sample_scheduled)
            => LoopContext]_vars
    /\ [][(\/ hartbeat_rise_timestamp' # hartbeat_rise_timestamp
           \/ \E h \in Heaters :
                 \/ PidFields(heaters'[h]) # PidFields(heaters[h])
                 \/ LoopTimestamps(heaters'[h]) # LoopTimestamps(heaters[h])
                 \/ SleepFields(heaters'[h]) # SleepFields(heaters[h])
                 \/ DriveFields(heaters'[h]) # DriveFields(heaters[h]))
            => LoopContext]_vars

\* C27, the case: the ISR has scheduled a sample after a compute produced an
\* output, and the loop has consumed the heartbeat flag of an earlier tick
C27_Witness ==
    /\ heaters[0]._sample_scheduled
    /\ heaters[0]._sample_Schedule_timestamp > 0
    /\ heaters[0]._enable
    /\ heaters[0]._pid_output > 0
    /\ zero_cross_counter = 0
    /\ hartbeat_output
    /\ hartbeat_rise_timestamp > 0

\* the table is a table of numbers, non-decreasing in both columns
NonDecreasing(table) ==
    /\ \A i \in 1 .. _tc_cal_table_size : IsNum(table[i][1]) /\ IsNum(table[i][2])
    /\ \A i \in 1 .. (_tc_cal_table_size - 1) :
          table[i][1] <= table[i + 1][1] /\ table[i][2] <= table[i + 1][2]

\* temperatures the round trip is taken at: those of the rows and those half way
\* between the rows of the default table
ProbeTemps(table) ==
    {table[i][2] : i \in 1 .. _tc_cal_table_size}
    \cup {25 + 50 * i : i \in 0 .. (_tc_cal_table_size - 2)}

\* tcv_to_temp(temp_to_tcv(t)) is a number no more than one degree from t (one
\* degree is what the numbers of the model resolve)
RoundTrips(table, t) ==
    LET back == tcv_to_temp(table, temp_to_tcv(table, t))
    IN  IsNum(back) /\ back - t <= 1 /\ t - back <= 1

\* C28: for every table that is non-decreasing in both columns, equal adjacent
\* entries allowed, and every t from table[0].t to table[9].t, the round trip
\* tcv_to_temp(temp_to_tcv(t)) gives t back.
C28_RoundTrip ==
    \A h \in Heaters :
        (Started /\ NonDecreasing(heaters[h]._tc_cal_table))
        => \A t \in ProbeTemps(heaters[h]._tc_cal_table) :
              (/\ heaters[h]._tc_cal_table[1][2] <= t
               /\ t <= heaters[h]._tc_cal_table[_tc_cal_table_size][2])
              => RoundTrips(heaters[h]._tc_cal_table, t)

\* the step is a line from the USB port that was answered without ERROR
UsbAccepted ==
    /\ pc = "serial"
    /\ pc' = "hmi"
    /\ usb_tx' # << >>
    /\ usb_tx'[1] # "ERROR "

\* the channel holds the documented defaults for S uV/K
DefaultsFor(H, S) ==
    /\ H._pid_TCvoltage_sp = S
    /\ H._temp_sp_min = 100
    /\ H._temp_sp_max = 400
    /\ H._pid_kp = 0 /\ H._pid_ki = 0 /\ H._pid_kd = 0
    /\ H._pid_derivative_filter_tau = FScale \div 4
    /\ H._sleep_delay = 30000
    /\ H._temp_runaway_threshold = 480
    /\ \A i \in 1 .. _tc_cal_table_size :
          H._tc_cal_table[i] = << 50 * (i - 1) * S, 50 * (i - 1) >>
    /\ H._sleep_TCvoltage_set = 150 * S

\* C29: after a restore command with a valid S, whatever the channel held before,
\* the channel holds the documented defaults: tc_voltage_sp = S, limits 100 and
\* 400, zero gains, derivative tau 0.25, sleep delay 30000 ms, runaway threshold
\* 480, table rows (50 i S, 50 i), and the sleep setpoint of 150 C under the
\* restored table, 150 S.
C29_RestoreDefaults ==
    [][UsbAccepted
        => /\ \E h \in Heaters : \E S \in 1 .. 40 : DefaultsFor(heaters'[h], S)
           /\ \A h \in Heaters :
                 heaters'[h] # heaters[h]
                 => \E S \in 1 .. 40 : DefaultsFor(heaters'[h], S)]_vars

\* the PID state as pid_reset leaves it, the derivative memory included
FullReset(H) ==
    /\ PidIsReset(H)
    /\ H._pid_derivative_prev_e_t = FMul(H._pid_TCvoltage_pv, FScale)

\* the step is the evaluation of an `en` line with argument 0 or 1 for heater h
EnableWritten(h) ==
    /\ pc = "serial"
    /\ pc' = "hmi"
    /\ \E a \in {"0", "1"} :
          heaters' = eval_serial_command(heaters, eeprom, Message(h, "en", << a >>),
                                         NoFaults).heaters
    /\ usb_tx' = << "OK", "\n" >>

\* the step is a pid_sample call of the current heater
AcquireStep == pc = "update_sample" /\ pc' = "update_store"

\* the step is the store to _sample_scheduled that follows a pid_sample call
StoreStep == pc = "update_store" /\ pc' = "update_compute"

\* the pid_sample call of the step ended in the runaway branch
TripStep ==
    /\ AcquireStep
    /\ \/ FGt(heaters'[idx]._temp_pv, heaters'[idx]._temp_runaway_threshold)
       \/ Current._enable /\ ~heaters'[idx]._enable

OversampledCompute ==
    /\ UpdateStep
    /\ Current._pid_update_pending
    /\ Current._enable
    /\ Current._pid_TCvoltage_pv_timestamp - Current._pid_TCvoltsge_pv_old_timestamp < 1000

\* C32: a pid_compute call whose dt, the time between the two latest sample
\* timestamps, is below 0.001 s leaves output, integral and derivative_prev
\* unchanged and ends with pid_update_pending false.
C32_OversamplingSkip ==
    [][OversampledCompute
        => /\ heaters'[idx]._pid_output = Current._pid_output
           /\ heaters'[idx]._pid_integral = Current._pid_integral
           /\ heaters'[idx]._pid_derivative_prev_e_t = Current._pid_derivative_prev_e_t
           /\ ~heaters'[idx]._pid_update_pending]_vars

\* C32, the case: the retaken sample of an enabled channel carries the
\* timestamp of the one before it, and the compute it asked for has kept the
\* positive output of the previous compute
C32_Witness ==
    /\ pc = "serial"
    /\ \E h \in Heaters :
          /\ heaters[h]._enable
          /\ heaters[h]._pid_TCvoltage_pv_timestamp > 0
          /\ heaters[h]._pid_TCvoltage_pv_timestamp
                = heaters[h]._pid_TCvoltsge_pv_old_timestamp
          /\ ~heaters[h]._pid_update_pending
          /\ FGt(heaters[h]._pid_output, 0)

\* the step is a pid_compute call of the current heater that passes the
\* oversampling guard with an integral gain above zero
IntegralCompute ==
    /\ UpdateStep
    /\ Current._pid_update_pending
    /\ Current._enable
    /\ Current._pid_TCvoltage_pv_timestamp - Current._pid_TCvoltsge_pv_old_timestamp >= 1000
    /\ FGt(Current._pid_ki, 0)

\* C33: after every PID compute with ki > 0 the integral satisfies
\* output_min / ki <= integral <= output_max / ki, that is 0 <= integral <= 1 / ki,
\* for every sequence of samples.
C33_IntegralClamped ==
    [][IntegralCompute
        => /\ FGe(heaters'[idx]._pid_integral, 0)
           /\ FLe(heaters'[idx]._pid_integral, FixDiv(FScale, heaters'[idx]._pid_ki))]_vars

\* float slot s of the chip lies in the bytes 120 i .. 120 i + 119
InRecord(i, s) == 4 * s >= 120 * i /\ 4 * s + 4 <= 120 * i + 120

\* the step leaves every channel but i and every byte outside i's record alone
Confined(i) ==
    /\ \A j \in DOMAIN heaters : j # i => heaters'[j] = heaters[j]
    /\ \A s \in DOMAIN eeprom : ~InRecord(i, s) => eeprom'[s] = eeprom[s]

\* the step is setup(): every channel is loaded from the chip
BankLoadStep == pc = "setup" /\ pc' # "setup"

\* C34: the records of the channels are disjoint and in bounds: channel i uses
\* exactly the bytes 120 i .. 120 i + 119, all inside the 2048-byte chip; a
\* command and the save it ends with change no other channel's object and no
\* byte outside the record of the channel addressed, and a load fills channel
\* i from the floats of its own record.
C34_RecordsDisjoint ==
    /\ [](\A i \in DOMAIN heaters :
            /\ heaters[i]._start_address = 120 * i
            /\ heaters[i]._start_address + eeprom_footprint = 120 * i + 120
            /\ 120 * i + 120 <= 2048)
    /\ [][UsbStep
            => \E message \in BankLines :
                  /\ heaters' = eval_serial_command(heaters, eeprom, message,
                                                    NoFaults).heaters
                  /\ Confined(message.id)]_vars
    /\ [][BankLoadStep
            => /\ eeprom' = eeprom
               /\ \A i \in DOMAIN heaters : \A k \in 1 .. eeprom_slots :
                     persisted(heaters'[i])[k] = eeprom[(120 * i) \div 4 + k - 1]]_vars

\* C34, the case: all four channels are loaded, a `restore` addressed to
\* channel 2 has rewritten its record, and the records around it hold what
\* they held: a configured one below, a blank one above
C34_Witness ==
    /\ pc = "hmi"
    /\ usb_tx = << "OK", "\n" >>
    /\ DOMAIN heaters = 0 .. 3
    /\ heaters[2]._pid_kp = 0
    /\ eeprom[2 * eeprom_slots + 3] = 0
    /\ eeprom[1 * eeprom_slots + 3] = FScale
    /\ eeprom[3 * eeprom_slots + 3] = NaN
    /\ heaters[1]._pid_kp = FScale
    /\ heaters[3]._pid_kp = NaN

\* C35: every pid_sample call of a channel is made while the heater pin of the
\* channel is LOW and has been LOW without interruption for more than the
\* amplifier recovery time, whatever zero-cross ticks fall between the steps
\* of the main loop, and also when the sample is retaken right after a reset.
C35_SampleAfterRecovery ==
    [][AcquireStep
        => /\ ~pin[idx]
           /\ micros - low_since[idx] > _tc_amp_recovery_time
           /\ ~pin'[idx]]_vars

\* C35, the case: a zero-cross tick has rescheduled the sample between the
\* loop's test and its pid_sample call, and the sample was taken on a pin
\* that had been LOW for longer than the recovery time
C35_Witness ==
    /\ pc = "update_store"
    /\ Current._enable
    /\ Current._sample_Schedule_timestamp = micros
    /\ Current._pid_TCvoltage_pv_timestamp = micros
    /\ micros - low_since[idx] > _tc_amp_recovery_time
    /\ low_since[idx] > 0
    /\ ~pin[idx]

\* C36: a sample schedule issued by the ISR is never cancelled without being
\* served: whenever the main loop stores sample_scheduled = false, the
\* acquisition it has just made was made more than the recovery time after the
\* most recent pid_schedule_sample of the channel, also when a zero-cross tick
\* falls between the loop's pid_sample call and its store.
C36_ScheduleServed ==
    [][(StoreStep /\ Current._sample_scheduled /\ ~heaters'[idx]._sample_scheduled)
        => Current._pid_TCvoltage_pv_timestamp - Current._sample_Schedule_timestamp
              > _tc_amp_recovery_time]_vars

\* C37: if the ISR keeps ticking and the main loop keeps iterating, then
\* whenever sample_scheduled of a channel becomes true it eventually becomes
\* false again, whether the channel is enabled, disabled or reads a
\* temperature that stays above the runaway threshold.
C37_WindowCloses ==
    \A h \in Heaters :
        heaters[h]._sample_scheduled ~> ~heaters[h]._sample_scheduled

\* C38: after init and after every completed command, update() and ISR tick a
\* channel whose enable flag is false has output 0, and the PID compute of
\* update() changes neither integral nor derivative_prev nor output of a
\* channel whose enable flag is false.
C38_DisabledOutputZero ==
    /\ [](\A h \in Heaters : (Started /\ ~heaters[h]._enable) => heaters[h]._pid_output = 0)
    /\ [][(UpdateStep /\ ~Current._enable)
            => /\ heaters'[idx]._pid_integral = Current._pid_integral
               /\ heaters'[idx]._pid_derivative_prev_e_t = Current._pid_derivative_prev_e_t
               /\ heaters'[idx]._pid_output = Current._pid_output]_vars

\* C38, the case: a channel that is switched off was sampled below the runaway
\* threshold, update() has passed its compute with the sample still pending,
\* and the output is 0
C38_Witness ==
    /\ pc = "serial"
    /\ \E h \in Heaters :
          /\ ~heaters[h]._enable
          /\ heaters[h]._pid_update_pending
          /\ heaters[h]._pid_TCvoltage_pv_timestamp > 0
          /\ ~FGt(heaters[h]._temp_pv, heaters[h]._temp_runaway_threshold)
          /\ Configured(heaters[h])
          /\ heaters[h]._pid_output = 0

\* the update() of this step takes the current channel into SLEEP
EntersSleep == UpdateStep /\ ~SLEEP(Current) /\ SLEEP(heaters'[idx])

\* C39: a channel enters SLEEP only if its stand sense input has been LOW
\* without interruption for more than sleep_delay_ms right before: a delay
\* started before the channel was disabled does not let it enter SLEEP after
\* it is enabled again unless the iron stayed on the stand all the time.
C39_SleepNeedsStand ==
    [][EntersSleep
        => /\ stand_seen'[idx]
           /\ ~stand_lifted[idx]
           /\ FGt(millis - Current._sleep_delay_start_time, Current._sleep_delay)]_vars

\* the displayed setpoint is the temperature of the regulated voltage under the
\* table of the channel, to within one degree
SetpointsAgree(H) ==
    LET t == tcv_to_temp(H._tc_cal_table, H._pid_TCvoltage_sp)
    IN  /\ IsNum(t)
        /\ IsNum(H._temp_sp)
        /\ H._temp_sp - t <= 1
        /\ t - H._temp_sp <= 1

\* C40: the temperature setpoint shown to the operator and the voltage setpoint
\* the PID regulates to always agree: after init and after any accepted set_t,
\* set_uv, tc_cal_table or restore command, temp_sp equals
\* tcv_to_temp(tc_voltage_sp) under the current table, within tolerance.
C40_SetpointsAgree ==
    pc # "setup" => \A h \in Heaters : SetpointsAgree(heaters[h])

====
